---- MODULE Spec2Model ----
(***************************************************************************)
(* State-machine model of the trading environment of iq-agent:             *)
(*   - the backtest simulator (BacktestEnvironment + BacktestRunner.run),  *)
(*   - the wallet and the EnvironmentState ledger,                         *)
(*   - the live SensorManager buffers.                                     *)
(* Money is counted in whole units; stakes and payout percentages are      *)
(* chosen so that invest * profitPercent / 100 is a whole number.          *)
(***************************************************************************)
EXTENDS Integers, Sequences, FiniteSets, TLC

\* ------------------------------------------------------------------ bounds

\* capacity of a sensor buffer (the code's default is 100)
maxBufferSize == 2
\* number of trades an agent places in one replay
MaxTrades == 2
\* number of calls (actions, prefills) an agent makes in one cycle
MaxCalls == 2
\* latest period start of an arriving candle: enough periods to overflow
MaxPushTime == maxBufferSize + 1
\* longest item list handed to one prefill call: one more than fits
MaxPrefillLen == maxBufferSize + 1
\* wallet balance a backtest starts with
InitialBalance == 40

\* capacity of the recent-closed ring of EnvironmentState (the code's is 50)
maxRecentClosed == 2
\* number of closed positions fed to one EnvironmentState
MaxCloses == 3

\* ------------------------------------------------------- program constants

\* BacktestRunner.run: payoutPercent = config.payoutPercent ?? 80
DefaultPayoutPercent == 80

\* ------------------------------------------------------------- input sets

\* stands for an absent optional field (undefined) of a payload
Undefined == -1

Directions == {"call", "put"}
\* instrument 3 has no candle in the dataset
TradeAssets == {1, 3}
Stakes == {20}
ExpirationSizes == {2}
\* <<payload.currentPrice, payload.profitPercent>>: both absent, or the price
\* and the payout the agent read
QuoteArgs == {<<Undefined, Undefined>>, <<10, 85>>}

Candle(from, activeId, size, close) ==
    [from |-> from, active_id |-> activeId, size |-> size, close |-> close]

\* Dataset rows as loaded and merged by BacktestRunner.run (step 1), already in
\* the order the chronological sort leaves them in.
\* Instrument 1 and instrument 2 candles of period 1; the last candle of the
\* dataset is not one of instrument 1.
Dataset ==
    << Candle(1, 1, 1, 10), Candle(2, 1, 1, 11), Candle(2, 2, 1, 20),
       Candle(3, 1, 1, 11), Candle(4, 2, 1, 21) >>

\* ------------------------------------------------------------ sequences

Last(s) == s[Len(s)]

\* Array.prototype.slice(-n) for n >= 1
SliceLast(s, n) == IF Len(s) <= n THEN s ELSE SubSeq(s, Len(s) - n + 1, Len(s))

RECURSIVE FilterSeq(_, _)
\* Array.prototype.filter with the predicate given as the set of kept values
FilterSeq(s, keep) ==
    IF s = <<>> THEN <<>>
    ELSE IF Head(s) \in keep THEN <<Head(s)>> \o FilterSeq(Tail(s), keep)
    ELSE FilterSeq(Tail(s), keep)

Range(s) == {s[k] : k \in 1..Len(s)}

\* number of entries of s whose id is id
CountId(s, id) == Cardinality({k \in 1..Len(s) : s[k].id = id})

\* ------------------------------------------------------ sensor identifiers

\* SensorManager.candleId: `candle:${activeId}:${size}`
candleId(activeId, size) == <<"candle", activeId, size>>
\* SensorManager.moodId: `mood:${activeId}`
moodId(activeId) == <<"mood", activeId, 0>>

CandleSensor(activeId, size) ==
    [id |-> candleId(activeId, size), type |-> "candle",
     active_id |-> activeId, size |-> size]
MoodSensor(activeId) ==
    [id |-> moodId(activeId), type |-> "mood", active_id |-> activeId, size |-> 0]

\* ------------------------------------------- BacktestEnvironment buffers

\* "buffer.push(item); if (buffer.length > this.maxBufferSize) buffer.shift()"
\* in BacktestEnvironment.prefillSensor and feedCandle
BufferPush(buffer, item) ==
    LET b == Append(buffer, item)
    IN  IF Len(b) > maxBufferSize THEN Tail(b) ELSE b

RECURSIVE PrefillBuffer(_, _)
\* the loop of BacktestEnvironment.prefillSensor
PrefillBuffer(buffer, data) ==
    IF data = <<>> THEN buffer
    ELSE PrefillBuffer(BufferPush(buffer, Head(data)), Tail(data))

\* the buffer mutation of BacktestEnvironment.feedCandle
FeedBufferAppending(buffer, candle) == BufferPush(buffer, candle)
FeedBuffer(buffer, candle) ==
    IF Len(buffer) > 0 /\ Last(buffer).from = candle.from
    THEN [buffer EXCEPT ![Len(buffer)] = candle]
    ELSE BufferPush(buffer, candle)

\* ------------------------------------------------------- SensorManager

\* "buffer.push(data); if (buffer.length > this.maxBufferSize) buffer.shift()"
\* in SensorManager.pushData, pushCandle and prefill
SensorPushNoShift(buffer, item) == Append(buffer, item)
SensorPush(buffer, item) ==
    LET b == Append(buffer, item)
    IN  IF Len(b) > maxBufferSize THEN Tail(b) ELSE b

\* "last.from === candle.from" on a non-empty buffer, in SensorManager.pushCandle
SamePeriodNever(buffer, candle) == FALSE
SamePeriod(buffer, candle) ==
    Len(buffer) > 0 /\ Last(buffer).from = candle.from

RECURSIVE SensorPrefill(_, _)
\* the loop of SensorManager.prefill
SensorPrefill(buffer, data) ==
    IF data = <<>> THEN buffer
    ELSE SensorPrefill(SensorPush(buffer, Head(data)), Tail(data))

\* The SensorManager m: [activeSensors, sensorData, updateCallbacks] and the
\* handlers it has wired into the venue APIs. A handler is the sensor whose id
\* its closure pushes into.

\* the handlers the venue calls for a candle of (activeId, size)
CandleHandlers(hs, activeId, size) ==
    FilterSeq(hs, {h \in Range(hs) :
                     h.type = "candle" /\ h.active_id = activeId /\ h.size = size})

\* the handlers the venue calls for a mood reading of activeId
MoodHandlers(hs, activeId) ==
    FilterSeq(hs, {h \in Range(hs) : h.type = "mood" /\ h.active_id = activeId})

\* candles.unsubscribeCandles(activeId, size): local delivery is cancelled
unsubscribeCandles(hs, sensor) ==
    FilterSeq(hs, {h \in Range(hs) :
                     ~(h.type = "candle" /\ h.active_id = sensor.active_id
                         /\ h.size = sensor.size)})

\* SensorManager.subscribe
subscribeAlways(m, sensor) ==
    [m EXCEPT
       !.activeSensors = [x \in DOMAIN @ \cup {sensor.id} |->
                             IF x = sensor.id THEN sensor ELSE @[x]],
       !.sensorData = [x \in DOMAIN @ \cup {sensor.id} |->
                          IF x = sensor.id THEN <<>> ELSE @[x]],
       !.handlers = Append(@, sensor)]
subscribe(m, sensor) ==
    IF sensor.id \in DOMAIN m.activeSensors THEN m
    ELSE [m EXCEPT
            !.activeSensors = [x \in DOMAIN @ \cup {sensor.id} |->
                                  IF x = sensor.id THEN sensor ELSE @[x]],
            !.sensorData = [x \in DOMAIN @ \cup {sensor.id} |->
                               IF x = sensor.id THEN <<>> ELSE @[x]],
            !.handlers = Append(@, sensor)]

\* SensorManager.unsubscribe
unsubscribeKeepsBuffer(m, sensorId) ==
    [m EXCEPT !.activeSensors = [x \in DOMAIN @ \ {sensorId} |-> @[x]]]
unsubscribe(m, sensorId) ==
    IF sensorId \notin DOMAIN m.activeSensors THEN m
    ELSE [m EXCEPT
            !.activeSensors = [x \in DOMAIN @ \ {sensorId} |-> @[x]],
            !.sensorData = [x \in DOMAIN @ \ {sensorId} |-> @[x]],
            !.handlers = IF m.activeSensors[sensorId].type = "candle"
                         THEN unsubscribeCandles(@, m.activeSensors[sensorId])
                         ELSE @]

\* SensorManager.onUpdate / offUpdate
onUpdate(m, callback) == [m EXCEPT !.updateCallbacks = @ \cup {callback}]
offUpdate(m, callback) == [m EXCEPT !.updateCallbacks = @ \ {callback}]

\* SensorManager.pushData; mutated tells whether a buffer was written, calls
\* are the callbacks invoked with (sensorId, data)
pushDataUnchecked(m, sensorId, data) ==
    IF sensorId \notin DOMAIN m.sensorData
    THEN [m |-> m, mutated |-> FALSE, calls |-> m.updateCallbacks]
    ELSE [m |-> [m EXCEPT !.sensorData[sensorId] = SensorPush(@, data)],
          mutated |-> TRUE, calls |-> m.updateCallbacks]
pushData(m, sensorId, data) ==
    IF sensorId \notin DOMAIN m.sensorData
    THEN [m |-> m, mutated |-> FALSE, calls |-> {}]
    ELSE [m |-> [m EXCEPT !.sensorData[sensorId] = SensorPush(@, data)],
          mutated |-> TRUE, calls |-> m.updateCallbacks]

\* SensorManager.pushCandle
pushCandle(m, sensorId, candle) ==
    IF sensorId \notin DOMAIN m.sensorData
    THEN [m |-> m, mutated |-> FALSE, calls |-> {}]
    ELSE IF SamePeriod(m.sensorData[sensorId], candle)
         THEN [m |-> [m EXCEPT !.sensorData[sensorId] =
                                   [@ EXCEPT ![Len(@)] = candle]],
               mutated |-> TRUE, calls |-> m.updateCallbacks]
         ELSE [m |-> [m EXCEPT !.sensorData[sensorId] = SensorPush(@, candle)],
               mutated |-> TRUE, calls |-> m.updateCallbacks]

RECURSIVE Deliver(_, _, _, _)
\* the venue hands item to each of the handlers hs in turn; a candle handler
\* calls pushCandle(sensor.id, item), every other handler pushData(sensor.id,
\* item). done lists, per handler call, the sensor, the item, whether a buffer
\* was written and the callbacks invoked
Deliver(m, hs, item, done) ==
    IF hs = <<>> THEN [m |-> m, done |-> done]
    ELSE LET h == Head(hs)
             r == IF h.type = "candle" THEN pushCandle(m, h.id, item)
                                       ELSE pushData(m, h.id, item)
         IN  Deliver(r.m, Tail(hs), item,
                     Append(done, [id |-> h.id, item |-> item,
                                   mutated |-> r.mutated, calls |-> r.calls]))

RECURSIVE prefillNotifying(_, _, _)
\* SensorManager.prefill; done lists the callback invocations it makes: none
prefillNotifying(m, sensorId, data) ==
    IF data = <<>> THEN [m |-> m, done |-> <<>>]
    ELSE LET r    == pushData(m, sensorId, Head(data))
             rest == prefillNotifying(r.m, sensorId, Tail(data))
         IN  [m |-> rest.m,
              done |-> << [id |-> sensorId, item |-> Head(data),
                           mutated |-> r.mutated, calls |-> r.calls] >>
                       \o rest.done]
prefill(m, sensorId, data) ==
    IF sensorId \notin DOMAIN m.sensorData THEN [m |-> m, done |-> <<>>]
    ELSE [m |-> [m EXCEPT !.sensorData[sensorId] = SensorPrefill(@, data)],
          done |-> <<>>]

\* ------------------------------------------------------------ variables

VARIABLES
    \* BacktestEnvironment
    allCandles,        \* the merged, chronologically sorted dataset
    payoutPercent,     \* payout applied when a trade payload names none
    state,             \* EnvironmentState
    sensorBuffers,     \* Map sensorId -> buffer
    subscribedSensors, \* Map sensorId -> Sensor
    pendingTrades,     \* PendingTrade[]
    currentTime,       \* simulated clock
    wallet,            \* Wallet (balance, peak, maxDrawdown, bust callback set)
    nextPositionId,
    agentRef,          \* whether runAgent has stored the agent
    \* BacktestRunner.run
    pc,                \* where BacktestRunner.run stands
    idx,               \* index of the next dataset candle to replay
    busted,            \* set by the wallet's bust callback
    simulatedTime,     \* the runner's clock, read by the event bus and ctx.now
    startedAt,         \* wall-clock time (Date.now) at which the run started
    recorded,          \* trades posted by the trade-resolved callback
    \* the agent
    tradeResults,      \* positions handed to agent.onTradeResult
    slot,              \* calls the agent made on the environment in this cycle
    \* history of wallet movements per trade
    tradeLog,
    \* live SensorManager
    activeSensors,     \* Map sensorId -> Sensor
    sensorData,        \* Map sensorId -> buffer
    updateCallbacks,   \* Set of registered update callbacks
    handlers,          \* push handlers wired into the venue APIs, in wiring order
    lastOp,            \* the latest operation applied by the sensor harness
    \* a second replay of the same dataset with the same agent
    twin,
    \* values a caller holds on to
    snap,              \* a snapshot returned by EnvironmentState.snapshot
    observation,       \* observations returned by getObservation, live and backtest
    fedPositions,      \* the closed positions fed to onPositionChanged so far
    \* the event bus and the callers of executeActions
    bus,               \* EventBus (listeners, persistFn, buffer) and its sink
    batch,             \* the latest executeActions call and what it returned
    \* the live TradingEnvironment's connection
    link,              \* reconnect handler position, and what it sent, in order
    emitted,           \* the events handed to EventBus.emit by its callers, in order
    cycles,            \* the live observation cycles in flight and what they did
    liveRunner,        \* the live AgentRunner: its running flag, timers and stop sequence
    atrx,              \* the ATRX agent's risk state, its clock and what it was given and returned
    liveAgent          \* the agent run by the live environment: its hook calls

envVars == << allCandles, payoutPercent, state, sensorBuffers, subscribedSensors,
              pendingTrades, currentTime, wallet, nextPositionId, agentRef,
              busted, startedAt, recorded, tradeResults, tradeLog >>
runVars == << pc, idx, slot, simulatedTime >>
liveVars == << activeSensors, sensorData, updateCallbacks, handlers, lastOp >>
auxVars == << bus, batch, link, emitted, cycles, liveRunner, atrx >>
heldVars == << snap, observation, fedPositions, liveAgent, auxVars >>
vars == << envVars, runVars, liveVars, twin, heldVars >>

\* The BacktestEnvironment with the objects its callbacks reach, as one value.
Env ==
    [ allCandles |-> allCandles, payoutPercent |-> payoutPercent, state |-> state,
      sensorBuffers |-> sensorBuffers, subscribedSensors |-> subscribedSensors,
      pendingTrades |-> pendingTrades, currentTime |-> currentTime,
      wallet |-> wallet, nextPositionId |-> nextPositionId, agentRef |-> agentRef,
      busted |-> busted, startedAt |-> startedAt, recorded |-> recorded,
      tradeResults |-> tradeResults, tradeLog |-> tradeLog ]

\* the next state holds the environment e
SetEnv(e) ==
    /\ allCandles' = e.allCandles
    /\ payoutPercent' = e.payoutPercent
    /\ state' = e.state
    /\ sensorBuffers' = e.sensorBuffers
    /\ subscribedSensors' = e.subscribedSensors
    /\ pendingTrades' = e.pendingTrades
    /\ currentTime' = e.currentTime
    /\ wallet' = e.wallet
    /\ nextPositionId' = e.nextPositionId
    /\ agentRef' = e.agentRef
    /\ busted' = e.busted
    /\ startedAt' = e.startedAt
    /\ recorded' = e.recorded
    /\ tradeResults' = e.tradeResults
    /\ tradeLog' = e.tradeLog

\* The live SensorManager as one value.
Live ==
    [ activeSensors |-> activeSensors, sensorData |-> sensorData,
      updateCallbacks |-> updateCallbacks, handlers |-> handlers ]

\* the next state holds the SensorManager m
SetLive(m) ==
    /\ activeSensors' = m.activeSensors
    /\ sensorData' = m.sensorData
    /\ updateCallbacks' = m.updateCallbacks
    /\ handlers' = m.handlers

\* ------------------------------------------------------------ Wallet

NewWallet(initialBalance) ==
    [ balance |-> initialBalance, peak |-> initialBalance, maxDrawdown |-> 0,
      bustCallback |-> FALSE ]

canAffordAnything(w, amount) == TRUE
canAfford(w, amount) == w.balance >= amount

\* Wallet.debit; the bust callback of the runner sets busted
debit(e, amount) ==
    LET b  == e.wallet.balance - amount
        dd == e.wallet.peak - b
    IN  [e EXCEPT !.wallet.balance = b,
                  !.wallet.maxDrawdown = IF dd > @ THEN dd ELSE @,
                  !.busted = @ \/ (b <= 0 /\ e.wallet.bustCallback)]

\* Wallet.credit
credit(e, amount) ==
    LET b == e.wallet.balance + amount
    IN  [e EXCEPT !.wallet.balance = b,
                  !.wallet.peak = IF b > @ THEN b ELSE @]

\* ------------------------------------------------------ EnvironmentState

NewState ==
    [ balance |-> 0, openPositions |-> <<>>, closedCount |-> 0, winCount |-> 0,
      lossCount |-> 0, totalPnl |-> 0, drawdown |-> 0, maxDrawdown |-> 0,
      peak |-> 0, streak |-> 0, recentClosed |-> <<>>, serverTime |-> 0 ]

\* index of the open position with this id, 0 when there is none (findIndex)
FindOpenNever(open, id) == 0
FindOpen(open, id) ==
    IF \E k \in 1..Len(open) : open[k].id = id
    THEN CHOOSE k \in 1..Len(open) :
            open[k].id = id /\ \A j \in 1..(k - 1) : open[j].id # id
    ELSE 0

\* "pos.pnl || 0"
PnlOrZero(pos) == IF pos.pnl = Undefined THEN 0 ELSE pos.pnl

\* "this.streak = this.streak > 0 ? this.streak + 1 : 1" for a win,
\* "this.streak < 0 ? this.streak - 1 : -1" otherwise
NextStreakUnsigned(streak, isWin) == IF isWin THEN streak + 1 ELSE streak - 1
NextStreak(streak, isWin) ==
    IF isWin THEN (IF streak > 0 THEN streak + 1 ELSE 1)
             ELSE (IF streak < 0 THEN streak - 1 ELSE -1)

\* "if (this.totalPnl > this.peak) this.peak = this.totalPnl"
NextPeakLatest(peak, total) == total
NextPeak(peak, total) == IF total > peak THEN total ELSE peak

\* "if (this.drawdown > this.maxDrawdown) this.maxDrawdown = this.drawdown"
NextMaxDrawdownLatest(maxDrawdown, drawdown) == drawdown
NextMaxDrawdown(maxDrawdown, drawdown) ==
    IF drawdown > maxDrawdown THEN drawdown ELSE maxDrawdown

\* EnvironmentState.onPositionChanged
onPositionChanged(st, pos) ==
    IF pos.status = "open" THEN
        LET existing == FindOpen(st.openPositions, pos.id)
        IN  IF existing > 0
            THEN [st EXCEPT !.openPositions[existing] = pos]
            ELSE [st EXCEPT !.openPositions = Append(@, pos)]
    ELSE IF pos.status = "closed" THEN
        LET open2  == FilterSeq(st.openPositions,
                                {p \in Range(st.openPositions) : p.id # pos.id})
            total  == st.totalPnl + PnlOrZero(pos)
            isWin  == pos.close_reason = "win"
            peak2  == NextPeak(st.peak, total)
            dd     == peak2 - total
            recent == Append(st.recentClosed, pos)
        IN  [st EXCEPT
                !.openPositions = open2,
                !.closedCount = @ + 1,
                !.totalPnl = total,
                !.winCount = IF isWin THEN @ + 1 ELSE @,
                !.lossCount = IF isWin THEN @ ELSE @ + 1,
                !.streak = NextStreak(@, isWin),
                !.peak = peak2,
                !.drawdown = dd,
                !.maxDrawdown = NextMaxDrawdown(@, dd),
                !.recentClosed = IF Len(recent) > maxRecentClosed
                                 THEN Tail(recent) ELSE recent]
    ELSE st

\* An array handed to a caller: either a copy, or the very array the owner goes
\* on writing (items are then its contents when it was handed over).
CopyArray(a) == [shared |-> FALSE, items |-> a]
SameArray(a) == [shared |-> TRUE, items |-> a]

\* what the holder of the array reads, live being what the owner's array holds
ReadArray(h, live) == IF h.shared THEN live ELSE h.items

\* the owner assigns a new array to its field: a holder keeps the old one,
\* which nothing writes any more
Reassigned(h, old) == IF h.shared THEN [shared |-> FALSE, items |-> old] ELSE h

\* "new Map(this.sensorBuffers)", "new Map(this.sensorData)": a new map whose
\* entries hold the arrays of the copied map
MapCopy(map) == [id \in DOMAIN map |-> SameArray(map[id])]

\* what the holder of a copied map reads, map being the owner's map now
ReadMap(held, map) ==
    [id \in DOMAIN held |->
        ReadArray(held[id], IF id \in DOMAIN map THEN map[id] ELSE <<>>)]

\* "map.delete(id)": the owner drops the array, a holder keeps it
Deleted(held, id, map) ==
    [k \in DOMAIN held |->
        IF k = id /\ id \in DOMAIN map THEN Reassigned(held[k], map[id])
        ELSE held[k]]

\* "[...this.openPositions]", "[...this.recentClosed]" in snapshot
SnapshotArrayShared(a) == SameArray(a)
SnapshotArray(a) == CopyArray(a)

\* the arrays of a snapshot as the caller holds them
snapshotArrays(st) ==
    [ openPositions |-> SnapshotArray(st.openPositions),
      recentClosedPositions |-> SnapshotArray(st.recentClosed) ]

\* EnvironmentState.snapshot
snapshot(st) ==
    [ balance |-> st.balance, openPositions |-> st.openPositions,
      closedCount |-> st.closedCount, winCount |-> st.winCount,
      lossCount |-> st.lossCount, totalPnl |-> st.totalPnl,
      drawdown |-> st.drawdown, maxDrawdown |-> st.maxDrawdown,
      peak |-> st.peak, streak |-> st.streak,
      recentClosedPositions |-> st.recentClosed, serverTime |-> st.serverTime ]


\* --------------------------------------------------- BacktestEnvironment

EmptyMap == [x \in {} |-> <<>>]
MapPut(m, k, v) == [x \in DOMAIN m \cup {k} |-> IF x = k THEN v ELSE m[x]]
MapRemove(m, k) == [x \in DOMAIN m \ {k} |-> m[x]]

MaxOf(S) == CHOOSE x \in S : \A y \in S : y <= x
MinOf(S) == CHOOSE x \in S : \A y \in S : x <= y

\* BacktestEnvironment.setCurrentTime
setCurrentTime(e, ts) == [e EXCEPT !.currentTime = ts, !.state.serverTime = ts]

\* BacktestEnvironment.getObservation
getObservation(e) ==
    [ sensors |-> e.sensorBuffers, state |-> snapshot(e.state),
      timestamp |-> e.currentTime ]

\* BacktestEnvironment.getLatestClose: Undefined stands for null
getLatestClose(e, activeId) ==
    LET S == {k \in 1..Len(e.allCandles) :
                 /\ e.allCandles[k].active_id = activeId
                 /\ e.allCandles[k].from <= e.currentTime}
    IN  IF S = {} THEN Undefined ELSE e.allCandles[MaxOf(S)].close

\* BacktestEnvironment.findLastCandleForAsset: index of the candle, 0 for null
findLastCandleForAssetFirst(e, activeId) ==
    LET S == {k \in 1..Len(e.allCandles) : e.allCandles[k].active_id = activeId}
    IN  IF S = {} THEN 0 ELSE MinOf(S)
findLastCandleForAsset(e, activeId) ==
    LET S == {k \in 1..Len(e.allCandles) : e.allCandles[k].active_id = activeId}
    IN  IF S = {} THEN 0 ELSE MaxOf(S)

\* BacktestEnvironment.tradeToPosition
tradeToPositionByAsset(e, trade, status, closePrice, closeReason, pnl) ==
    [ id |-> trade.activeId, active_id |-> trade.activeId, direction |-> trade.direction,
      invest |-> trade.invest, open_quote |-> trade.openQuote,
      open_time |-> trade.openTime, expiration_time |-> trade.expirationTime,
      status |-> status, close_quote |-> closePrice, close_reason |-> closeReason,
      close_time |-> IF status = "closed" THEN e.currentTime ELSE 0,
      pnl |-> pnl ]
tradeToPosition(e, trade, status, closePrice, closeReason, pnl) ==
    [ id |-> trade.id, active_id |-> trade.activeId, direction |-> trade.direction,
      invest |-> trade.invest, open_quote |-> trade.openQuote,
      open_time |-> trade.openTime, expiration_time |-> trade.expirationTime,
      status |-> status, close_quote |-> closePrice, close_reason |-> closeReason,
      close_time |-> IF status = "closed" THEN e.currentTime ELSE 0,
      pnl |-> pnl ]

\* the openQuote of a new trade:
\* payload.currentPrice ?? this.getLatestClose(payload.activeId) ?? 0
OpenQuoteOf(e, payload) ==
    IF payload.currentPrice # Undefined THEN payload.currentPrice
    ELSE IF getLatestClose(e, payload.activeId) # Undefined
         THEN getLatestClose(e, payload.activeId)
         ELSE 0

\* the clock executeTrade stamps a trade with: this.currentTime
TradeClockWall(e) == e.startedAt
TradeClock(e) == e.currentTime

\* BacktestEnvironment.executeTrade; ok is FALSE when it throws
executeTrade(e, payload) ==
    LET invest == payload.price
    IN  IF ~canAfford(e.wallet, invest) THEN [e |-> e, ok |-> FALSE]
        ELSE
        LET previousBalance == e.wallet.balance
            e1 == debit(e, invest)
            e2 == [e1 EXCEPT !.state.balance = e1.wallet.balance]
            id == e2.nextPositionId
            trade ==
              [ id |-> id, direction |-> payload.direction,
                activeId |-> payload.activeId, invest |-> invest,
                openQuote |-> OpenQuoteOf(e2, payload),
                openTime |-> TradeClock(e2),
                expirationTime |-> TradeClock(e2) + payload.expirationSize,
                expirationSize |-> payload.expirationSize,
                profitPercent |-> IF payload.profitPercent # Undefined
                                  THEN payload.profitPercent
                                  ELSE e2.payoutPercent ]
            openPos == tradeToPosition(e2, trade, "open", 0, "", 0)
        IN  [e |-> [e2 EXCEPT
                      !.nextPositionId = id + 1,
                      !.pendingTrades = Append(@, trade),
                      !.state = onPositionChanged(@, openPos),
                      !.tradeLog = Append(@,
                          [ kind |-> "place", trade |-> trade, result |-> "open",
                            pnl |-> 0, closePrice |-> 0,
                            before |-> previousBalance,
                            after |-> e2.wallet.balance ])],
             ok |-> TRUE]

\* the historical candles executeSubscribe puts into a new candle buffer
HistoricalUpToNow(e, activeId, size) ==
    FilterSeq(e.allCandles,
              {c \in Range(e.allCandles) :
                  c.active_id = activeId /\ c.size = size /\ c.from <= e.currentTime})
Historical(e, activeId, size) ==
    FilterSeq(e.allCandles,
              {c \in Range(e.allCandles) :
                  c.active_id = activeId /\ c.size = size /\ c.from < e.currentTime})

\* BacktestEnvironment.executeSubscribe
executeSubscribe(e, sensor) ==
    IF sensor.id \in DOMAIN e.subscribedSensors THEN e
    ELSE
    LET buffers == IF sensor.id \in DOMAIN e.sensorBuffers
                   THEN e.sensorBuffers
                   ELSE MapPut(e.sensorBuffers, sensor.id, <<>>)
        toFill  == SliceLast(Historical(e, sensor.active_id, sensor.size),
                             maxBufferSize)
    IN  [e EXCEPT
           !.subscribedSensors = MapPut(@, sensor.id, sensor),
           !.sensorBuffers =
               IF sensor.type = "candle"
               THEN [buffers EXCEPT ![sensor.id] = @ \o toFill]
               ELSE buffers]

\* BacktestEnvironment.executeUnsubscribe
executeUnsubscribe(e, sensorId) ==
    [e EXCEPT !.subscribedSensors = MapRemove(@, sensorId),
              !.sensorBuffers = MapRemove(@, sensorId)]

\* BacktestEnvironment.prefillSensor
prefillSensor(e, sensorId, data) ==
    IF sensorId \notin DOMAIN e.sensorBuffers THEN e
    ELSE [e EXCEPT !.sensorBuffers[sensorId] = PrefillBuffer(@, data)]

\* BacktestCandlesAPI.getCandles
getCandles(e, activeId, size, from, to) ==
    FilterSeq(e.allCandles,
              {c \in Range(e.allCandles) :
                  c.active_id = activeId /\ c.size = size /\ c.from >= from
                     /\ c.from <= to})

\* BacktestCandlesAPI.getFirstCandles
getFirstCandles(e, activeId, size, count) ==
    SliceLast(Historical(e, activeId, size), count)

\* BacktestEnvironment.feedCandle: the buffer mutation; fired tells whether the
\* update callbacks run
feedCandle(e, candle) ==
    LET sensorId == candleId(candle.active_id, candle.size)
    IN  IF sensorId \notin DOMAIN e.sensorBuffers
        THEN [e |-> e, fired |-> FALSE]
        ELSE [e |-> [e EXCEPT !.sensorBuffers[sensorId] =
                                  FeedBuffer(@, candle)],
              fired |-> TRUE]


\* ------------------------------------------------------------ settlement

\* isTie / isWin of resolveTradeAtPrice
Outcome(trade, closePrice) ==
    IF closePrice = trade.openQuote THEN "tie"
    ELSE IF \/ (trade.direction = "call" /\ closePrice > trade.openQuote)
            \/ (trade.direction = "put" /\ closePrice < trade.openQuote)
         THEN "win"
         ELSE "loss"

\* profit = trade.invest * (trade.profitPercent / 100)
WinProfitUnscaled(trade) == trade.invest * trade.profitPercent
WinProfit(trade) == (trade.invest * trade.profitPercent) \div 100

\* the pnl resolveTradeAtPrice assigns
PnlOfLossless(trade, outcome) ==
    IF outcome = "win" THEN WinProfit(trade) ELSE 0
PnlOf(trade, outcome) ==
    IF outcome = "tie" THEN 0
    ELSE IF outcome = "win" THEN WinProfit(trade)
    ELSE -trade.invest

\* what resolveTradeAtPrice credits to the wallet (0: no wallet call)
TieCreditNone(trade) == 0
TieCredit(trade) == trade.invest

\* BacktestEnvironment.resolveTradeAtPrice
resolveTradeAtPrice(e, trade, closePrice) ==
    LET outcome == Outcome(trade, closePrice)
        pnl     == PnlOf(trade, outcome)
        e1      == IF outcome = "tie" THEN credit(e, TieCredit(trade))
                   ELSE IF outcome = "win" THEN credit(e, trade.invest + pnl)
                   ELSE e
        e2      == [e1 EXCEPT !.state.balance = e1.wallet.balance]
        closedPos == tradeToPosition(e2, trade, "closed", closePrice, outcome, pnl)
    IN  [e2 EXCEPT
           !.state = onPositionChanged(@, closedPos),
           \* tradeResolvedCallback, registered by the runner before the replay
           !.recorded = Append(@,
               [ id |-> trade.id, trade |-> trade, result |-> outcome, pnl |-> pnl,
                 closePrice |-> closePrice, closedAt |-> e2.currentTime,
                 walletAfter |-> e2.wallet.balance ]),
           \* agentRef.onTradeResult(closedPos)
           !.tradeResults = IF e2.agentRef THEN Append(@, closedPos) ELSE @,
           !.tradeLog = Append(@,
               [ kind |-> "settle", trade |-> trade, result |-> outcome,
                 pnl |-> pnl, closePrice |-> closePrice,
                 before |-> e.wallet.balance, after |-> e2.wallet.balance ])]

\* index of the first candle of the trade's instrument at or after its
\* expiration, 0 when allCandles.find returns undefined
ExpirationCandleOfAny(e, trade) ==
    LET S == {k \in 1..Len(e.allCandles) :
                 e.allCandles[k].from >= trade.expirationTime}
    IN  IF S = {} THEN 0 ELSE MinOf(S)
ExpirationCandle(e, trade) ==
    LET S == {k \in 1..Len(e.allCandles) :
                 /\ e.allCandles[k].active_id = trade.activeId
                 /\ e.allCandles[k].from >= trade.expirationTime}
    IN  IF S = {} THEN 0 ELSE MinOf(S)

\* BacktestEnvironment.resolveTrade
resolveTrade(e, trade) ==
    LET k == ExpirationCandle(e, trade)
        lastKnown == findLastCandleForAsset(e, trade.activeId)
    IN  IF k = 0
        THEN resolveTradeAtPrice(e, trade,
                 IF lastKnown # 0 THEN e.allCandles[lastKnown].close
                 ELSE trade.openQuote)
        ELSE resolveTradeAtPrice(e, trade, e.allCandles[k].close)

\* trade.expirationTime <= this.currentTime
ExpiredStrictly(trade, now) == trade.expirationTime < now
Expired(trade, now) == trade.expirationTime <= now

\* the list checkExpirations keeps as pendingTrades
RemainingAll(pending, now) == pending
Remaining(pending, now) ==
    FilterSeq(pending, {t \in Range(pending) : ~Expired(t, now)})

RECURSIVE ResolveEach(_, _)
\* for (const trade of toClose) this.resolveTrade(trade)
ResolveEach(e, toClose) ==
    IF toClose = <<>> THEN e
    ELSE ResolveEach(resolveTrade(e, Head(toClose)), Tail(toClose))

\* BacktestEnvironment.checkExpirations
checkExpirations(e) ==
    LET toClose == FilterSeq(e.pendingTrades,
                       {t \in Range(e.pendingTrades) : Expired(t, e.currentTime)})
        e1 == [e EXCEPT !.pendingTrades = Remaining(@, e.currentTime)]
    IN  ResolveEach(e1, toClose)

\* the price forceCloseAll settles a trade at
ForceClosePrice(e, trade, lastPrice) ==
    LET k == findLastCandleForAsset(e, trade.activeId)
    IN  IF k # 0 THEN e.allCandles[k].close ELSE lastPrice

RECURSIVE ForceEach(_, _, _)
ForceEach(e, trades, lastPrice) ==
    IF trades = <<>> THEN e
    ELSE ForceEach(
            resolveTradeAtPrice(e, Head(trades),
                                ForceClosePrice(e, Head(trades), lastPrice)),
            Tail(trades), lastPrice)

\* BacktestEnvironment.forceCloseAll
forceCloseAll(e, lastPrice) ==
    ForceEach([e EXCEPT !.pendingTrades = <<>>], e.pendingTrades, lastPrice)

\* -------------------------------------------------------- action execution

\* the query methods BacktestEnvironment.executeQuery answers
BacktestQueryMethods ==
    {"getPositions", "getHistory", "getBalances", "getAssets", "getTradersMood",
     "getCandles"}

\* BacktestEnvironment.executeQuery: what it returns, the candles for getCandles
\* with params and otherwise named by the method that produced it; the default
\* branch returns undefined
executeQuery(e, payload) ==
    IF payload.method = "getCandles" /\ "params" \in DOMAIN payload
    THEN getCandles(e, payload.params.activeId, payload.params.size,
                    payload.params.from, payload.params.to)
    ELSE IF payload.method \in BacktestQueryMethods THEN payload.method
    ELSE "undefined"

\* BacktestEnvironment.executeAction; ok is FALSE when it throws, error is the
\* message thrown and result what it returns; a type that matches no case falls
\* out of the switch and undefined is returned
executeAction(e, action) ==
    IF action.type = "trade"
    THEN LET t == executeTrade(e, action.payload)
         IN  [e |-> t.e, ok |-> t.ok, result |-> "undefined",
              error |-> IF t.ok THEN "" ELSE "Cannot afford trade"]
    ELSE IF action.type = "subscribe"
         THEN [e |-> executeSubscribe(e, action.payload), ok |-> TRUE,
               result |-> "undefined", error |-> ""]
    ELSE IF action.type = "unsubscribe"
         THEN [e |-> executeUnsubscribe(e, action.payload.sensorId), ok |-> TRUE,
               result |-> "undefined", error |-> ""]
    ELSE IF action.type = "query"
         THEN [e |-> e, ok |-> TRUE, result |-> executeQuery(e, action.payload),
               error |-> ""]
    ELSE [e |-> e, ok |-> TRUE, result |-> "undefined", error |-> ""]

\* ------------------------------------------------------------- EventBus

NewBus == [listeners |-> {}, persistFn |-> FALSE, buffer |-> <<>>,
           sink |-> <<>>, heard |-> <<>>]

TradingEvent(type, timestamp, payload) ==
    [type |-> type, timestamp |-> timestamp, payload |-> payload]

\* EventBus.emit: the listeners of the type, then the wildcard listeners, are
\* handed the event (heard); it is persisted (sink), or buffered when no
\* persistence is wired yet
emit(b, type, timestamp, payload) ==
    LET event == TradingEvent(type, timestamp, payload)
        typed == IF type \in b.listeners
                 THEN <<[on |-> type, event |-> event]>> ELSE <<>>
        wild  == IF "*" \in b.listeners
                 THEN <<[on |-> "*", event |-> event]>> ELSE <<>>
    IN  [b EXCEPT !.heard = @ \o typed \o wild,
                  !.sink = IF b.persistFn THEN Append(@, event) ELSE @,
                  !.buffer = IF b.persistFn THEN @ ELSE Append(@, event)]

\* EventBus.on
on(b, type) == [b EXCEPT !.listeners = @ \cup {type}]

\* EventBus.setPersist: wires the sink and flushes the buffer into it
setPersistWithoutFlush(b) == [b EXCEPT !.persistFn = TRUE]
setPersist(b) ==
    [b EXCEPT !.persistFn = TRUE, !.sink = @ \o b.buffer, !.buffer = <<>>]

\* ------------------------------------------------------- AgentContext

\* the first six characters of an event type
Prefix(type) ==
    CASE type \in {"agent:signal", "agent:debug", "agent:custom"} -> "agent:"
      [] type \in {"trade:placed", "trade:closed"} -> "trade:"
      [] type = "wallet:changed" -> "wallet"
      [] type = "run:stopped" -> "run:st"
      [] type = "agent" -> "agent"
      [] OTHER -> type
startsWith(type, prefix) == Prefix(type) = prefix

\* ctx.events.emit
ctxEventsEmitAny(b, type, timestamp, payload) == emit(b, type, timestamp, payload)
ctxEventsEmit(b, type, timestamp, payload) ==
    IF ~startsWith(type, "agent:") THEN b
    ELSE emit(b, type, timestamp, payload)
\* ctx.events.on
ctxEventsOn(b, type) == on(b, type)
\* ctx.log.debug and ctx.log.signal
ctxLog(b, level, timestamp, payload) ==
    IF level = "debug" THEN emit(b, "agent:debug", timestamp, payload)
    ELSE emit(b, "agent:signal", timestamp, payload)
\* ctx.wallet: what the four getters return
ctxWallet(w) ==
    [ getBalance |-> w.balance, getDrawdown |-> w.peak - w.balance,
      getMaxDrawdown |-> w.maxDrawdown, getPeak |-> w.peak ]

\* the events executeTrade emits once the trade is placed
TradeEvents(b, e, payload, id, previousBalance) ==
    LET b1 == emit(b, "position:changed", e.currentTime,
                   [positionId |-> id, status |-> "open",
                    activeId |-> payload.activeId])
        b2 == emit(b1, "trade:placed", e.currentTime,
                   [activeId |-> payload.activeId, direction |-> payload.direction,
                    amount |-> payload.price,
                    expirationSize |-> payload.expirationSize])
    IN  emit(b2, "wallet:changed", e.currentTime,
             [balance |-> e.wallet.balance, previousBalance |-> previousBalance,
              reason |-> "trade:open"])

\* one ActionResult; actionIndex counts from 0; error is "" when the result
\* carries a result
ActionResult(i, action, ok, result, error) ==
    [actionIndex |-> i, type |-> action.type, ok |-> ok, result |-> result,
     error |-> error]

\* the body of the loop of BacktestEnvironment.executeActions for actions[i]
ExecuteOne(r, action, i) ==
    LET x  == executeAction(r.e, action)
        b1 == IF action.type = "trade" /\ x.ok
              THEN TradeEvents(r.bus, x.e, action.payload, r.e.nextPositionId,
                               r.e.wallet.balance)
              ELSE r.bus
        ev == IF x.ok
              THEN emit(b1, "action:executed", x.e.currentTime,
                        [actionType |-> action.type, payload |-> action.payload])
              ELSE emit(b1, "action:failed", x.e.currentTime,
                        [actionType |-> action.type, payload |-> action.payload,
                         error |-> x.error])
    IN  [e |-> x.e, bus |-> ev,
         results |-> Append(r.results,
                            ActionResult(i, action, x.ok, x.result, x.error))]

RECURSIVE ExecuteFromAborting(_, _, _)
ExecuteFromAborting(r, actions, i) ==
    IF i >= Len(actions) THEN r
    ELSE LET n == ExecuteOne(r, actions[i + 1], i)
         IN  IF Last(n.results).ok THEN ExecuteFromAborting(n, actions, i + 1)
             ELSE n
RECURSIVE ExecuteFrom(_, _, _)
\* the loop of executeActions from index i on
ExecuteFrom(r, actions, i) ==
    IF i >= Len(actions) THEN r
    ELSE ExecuteFrom(ExecuteOne(r, actions[i + 1], i), actions, i + 1)

\* BacktestEnvironment.executeActions: every action is tried in turn, a throw
\* is caught and becomes that action's error
executeActions(e, b, actions) ==
    ExecuteFrom([e |-> e, bus |-> b, results |-> <<>>], actions, 0)


\* ------------------------------------------- AgentRunner

\* the live runner's tracking wallet and counters; start wires wallet.onBust
NewRunner(initialBalance) ==
    [ wallet |-> [NewWallet(initialBalance) EXCEPT !.bustCallback = TRUE],
      busted |-> FALSE, wins |-> 0, losses |-> 0, totalPnl |-> 0 ]

\* AgentRunner.handleTradeResult; pnl is position.pnl_realized ?? position.pnl ?? 0
handleTradeResult(runner, position) ==
    LET isWin  == position.close_reason = "win"
        amount == position.invest
        pnl    == IF position.pnl = Undefined THEN 0 ELSE position.pnl
        r1     == IF isWin
                  THEN credit([runner EXCEPT !.wins = @ + 1], pnl)
                  ELSE debit([runner EXCEPT !.losses = @ + 1], amount)
    IN  [r1 EXCEPT !.totalPnl = @ + pnl]

RECURSIVE HandleEach(_, _)
\* handleTradeResult for each closed position pushed, in order
HandleEach(runner, positions) ==
    IF positions = <<>> THEN runner
    ELSE HandleEach(handleTradeResult(runner, Head(positions)), Tail(positions))

\* ------------------------------------------- TradingEnvironment.runAgent

\* runAgent registers its position-changed handler once agent.initialize has
\* returned; closedSoFar closed positions were pushed before that
liveRunAgent(a, closedSoFar) == [a EXCEPT !.wired = TRUE, !.wiredAt = closedSoFar]

\* the handler runAgent registered: a closed position goes to the agent's
\* onTradeResult hook
tradeResultHandler(a, pos) ==
    IF a.wired /\ pos.status = "closed"
    THEN [a EXCEPT !.onTradeResult = Append(@, pos)]
    ELSE a

\* the update callback runAgent registers, called (not awaited) by pushData and
\* pushCandle: it takes the observation, calls agent.onObservation and, the
\* agent's actions being venue requests, sends the first and is suspended at
\* "await this.actions.execute(action)". requests counts the requests sent,
\* which is what an observation can show of the trades so far
updateCallback(c, actions) ==
    LET id == c.started + 1
        observed == [cycle |-> id, kind |-> "onObservation", index |-> 0,
                     requests |-> c.requests]
    IN  IF actions = <<>>
        THEN [c EXCEPT !.started = id, !.log = Append(@, observed)]
        ELSE [c EXCEPT
                !.started = id,
                !.requests = @ + 1,
                !.inFlight = Append(@, [cycle |-> id, actions |-> actions, index |-> 1]),
                !.log = @ \o << observed,
                               [cycle |-> id, kind |-> "sent", index |-> 1,
                                requests |-> c.requests + 1] >>]

\* the venue answers the request the k-th suspended cycle waits for:
\* executeActions records the result and sends the next action, or returns
actionSettles(c, k) ==
    LET cycle == c.inFlight[k]
        done  == [cycle |-> cycle.cycle, kind |-> "settled", index |-> cycle.index,
                  requests |-> c.requests]
    IN  IF cycle.index = Len(cycle.actions)
        THEN [c EXCEPT
                !.inFlight = SubSeq(@, 1, k - 1) \o SubSeq(@, k + 1, Len(@)),
                !.log = Append(@, done)]
        ELSE [c EXCEPT
                !.inFlight[k].index = @ + 1,
                !.requests = @ + 1,
                !.log = @ \o << done,
                               [cycle |-> cycle.cycle, kind |-> "sent",
                                index |-> cycle.index + 1,
                                requests |-> c.requests + 1] >>]

\* ------------------------------------------- SensorManager.resubscribeAll

\* a sensor of type position, order or balance; subscribe wires nothing to the
\* venue for a balance sensor and resubscribeAll sends nothing for it
BalanceSensor(balanceId) ==
    [id |-> <<"balance", balanceId>>, type |-> "balance", balance_id |-> balanceId]
PositionSensor(balanceId) ==
    [id |-> <<"position", balanceId>>, type |-> "position", balance_id |-> balanceId]
OrderSensor(userId) ==
    [id |-> <<"order", userId>>, type |-> "order", user_id |-> userId]

\* a message sent to the venue: the API used, the subscription's name and the
\* sensor it is for (<<>> for an environment-level subscription)
Message(api, name, sensor) == [api |-> api, name |-> name, sensor |-> sensor]

\* what resubscribeAll sends for one active sensor
ResubscribeMessage(sensor) ==
    IF sensor.type = "candle"
    THEN <<Message("resubscribeCandles", "candle-generated", sensor.id)>>
    ELSE IF sensor.type = "mood"
    THEN <<Message("subscribe", "traders-mood-changed", sensor.id)>>
    ELSE IF sensor.type = "position"
    THEN <<Message("subscribe", "portfolio.position-changed", sensor.id)>>
    ELSE IF sensor.type = "order"
    THEN <<Message("subscribe", "portfolio.order-changed", sensor.id)>>
    ELSE <<>>

RECURSIVE ResubscribeEach(_, _)
ResubscribeEach(m, ids) ==
    IF ids = {} THEN <<>>
    ELSE LET id == CHOOSE x \in ids : TRUE
         IN  ResubscribeMessage(m.activeSensors[id]) \o ResubscribeEach(m, ids \ {id})

\* SensorManager.resubscribeAll: the messages sent, one active sensor after the
\* other
resubscribeAllCandles(m) ==
    ResubscribeEach(m, { id \in DOMAIN m.activeSensors :
                            m.activeSensors[id].type = "candle" })
resubscribeAll(m) == ResubscribeEach(m, DOMAIN m.activeSensors)

\* the reconnect handler of TradingEnvironment.initialize once authenticateWs
\* has resolved: what it sends, then the ws:reconnected event
onReconnectAuthenticated(m, b, l, wallClock) ==
    [ link |-> [l EXCEPT
                  !.phase = "up",
                  !.authenticated = TRUE,
                  !.wire = @ \o <<Message("setOptions", "sendResults", <<>>)>>
                             \o resubscribeAll(m)
                             \o << Message("subscribe", "balance-changed", <<>>),
                                    Message("subscribe", "portfolio.position-changed", <<>>),
                                    Message("subscribe", "option-closed", <<>>),
                                    Message("emit", "ws:reconnected", <<>>) >>],
      bus |-> emit(b, "ws:reconnected", wallClock, <<>>) ]

\* ... once authenticateWs has rejected: the catch block only logs
onReconnectRejected(m, b, l) ==
    [link |-> [l EXCEPT !.phase = "up", !.authenticated = FALSE], bus |-> b]

\* ------------------------------------------------------- ActionExecutor

\* the query methods ActionExecutor.executeQuery passes to the venue
LiveQueryMethods == BacktestQueryMethods \cup {"getOrders"}

\* ActionExecutor.execute on the live SensorManager m; answer tells whether the
\* venue fulfils the request (a rejected promise throws)
execute(m, action, answer) ==
    IF action.type = "trade"
    THEN [m |-> m, ok |-> answer, result |-> "position",
          error |-> IF answer THEN "" ELSE "venue rejected"]
    ELSE IF action.type = "subscribe"
         THEN [m |-> subscribe(m, action.payload), ok |-> TRUE,
               result |-> "undefined", error |-> ""]
    ELSE IF action.type = "unsubscribe"
         THEN [m |-> unsubscribe(m, action.payload.sensorId), ok |-> TRUE,
               result |-> "undefined", error |-> ""]
    ELSE IF action.type = "query"
         THEN IF action.payload.method \in LiveQueryMethods
              THEN [m |-> m, ok |-> answer, result |-> action.payload.method,
                    error |-> IF answer THEN "" ELSE "venue rejected"]
              ELSE [m |-> m, ok |-> FALSE, result |-> "undefined",
                    error |-> "Unknown query method"]
    ELSE [m |-> m, ok |-> FALSE, result |-> "undefined",
          error |-> "Unknown action type"]

\* the body of the loop of TradingEnvironment.executeActions for actions[i];
\* now is the wall clock the bus stamps events with
LiveExecuteOne(r, action, i, answers, now) ==
    LET x  == execute(r.m, action, answers[i + 1])
        ev == IF x.ok
              THEN emit(r.bus, "action:executed", now,
                        [actionType |-> action.type, payload |-> action.payload])
              ELSE emit(r.bus, "action:failed", now,
                        [actionType |-> action.type, payload |-> action.payload,
                         error |-> x.error])
    IN  [m |-> x.m, bus |-> ev,
         results |-> Append(r.results,
                            ActionResult(i, action, x.ok, x.result, x.error))]

RECURSIVE LiveExecuteFrom(_, _, _, _, _)
LiveExecuteFrom(r, actions, i, answers, now) ==
    IF i >= Len(actions) THEN r
    ELSE LiveExecuteFrom(LiveExecuteOne(r, actions[i + 1], i, answers, now),
                         actions, i + 1, answers, now)

\* TradingEnvironment.executeActions
liveExecuteActions(m, b, actions, answers, now) ==
    LiveExecuteFrom([m |-> m, bus |-> b, results |-> <<>>], actions, 0, answers, now)

\* ------------------------------------------------------------ the agent

TradePayloads ==
    { [ activeId |-> a, direction |-> d, price |-> p, expirationSize |-> x,
        currentPrice |-> q[1], profitPercent |-> q[2] ] :
      a \in TradeAssets, d \in Directions, p \in Stakes, x \in ExpirationSizes,
      q \in QuoteArgs }

\* the candle sensors an agent subscribes to during a replay
ReplaySensors == {CandleSensor(1, 1), CandleSensor(2, 1)}
\* the count an agent passes to getFirstCandles
PrefillCounts == {3}

TradeActions == [type : {"trade"}, payload : TradePayloads]
SubscribeActions == [type : {"subscribe"}, payload : ReplaySensors]

\* ------------------------------------------------------ BacktestRunner.run

\* wall-clock times at which the two replays start
FirstStart == 100
SecondStart == 200

\* A replay: the environment and the position of BacktestRunner.run in it.
NewEnv(start) ==
    [ allCandles |-> Dataset, payoutPercent |-> DefaultPayoutPercent,
      state |-> [NewState EXCEPT !.balance = InitialBalance],
      sensorBuffers |-> EmptyMap, subscribedSensors |-> EmptyMap,
      pendingTrades |-> <<>>, currentTime |-> 0,
      wallet |-> NewWallet(InitialBalance), nextPositionId |-> 1,
      agentRef |-> FALSE, busted |-> FALSE, startedAt |-> start,
      recorded |-> <<>>, tradeResults |-> <<>>, tradeLog |-> <<>> ]

NewRun(start) ==
    [env |-> NewEnv(start), pc |-> "start", idx |-> 1, slot |-> 0,
     simulatedTime |-> Dataset[1].from]

Run == [env |-> Env, pc |-> pc, idx |-> idx, slot |-> slot,
        simulatedTime |-> simulatedTime]

\* the (initial) state holds the replay r
RunIs(r) ==
    /\ allCandles = r.env.allCandles
    /\ payoutPercent = r.env.payoutPercent
    /\ state = r.env.state
    /\ sensorBuffers = r.env.sensorBuffers
    /\ subscribedSensors = r.env.subscribedSensors
    /\ pendingTrades = r.env.pendingTrades
    /\ currentTime = r.env.currentTime
    /\ wallet = r.env.wallet
    /\ nextPositionId = r.env.nextPositionId
    /\ agentRef = r.env.agentRef
    /\ busted = r.env.busted
    /\ startedAt = r.env.startedAt
    /\ recorded = r.env.recorded
    /\ tradeResults = r.env.tradeResults
    /\ tradeLog = r.env.tradeLog
    /\ pc = r.pc
    /\ idx = r.idx
    /\ slot = r.slot
    /\ simulatedTime = r.simulatedTime

\* the next state holds the replay r
SetRun(r) ==
    /\ SetEnv(r.env)
    /\ pc' = r.pc
    /\ idx' = r.idx
    /\ slot' = r.slot
    /\ simulatedTime' = r.simulatedTime

\* step 8: env.setCurrentTime(allCandles[0].from); env.runAgent(agent, ctx)
\* stores the agent and awaits agent.initialize
RunAgentStep(r) ==
    [r EXCEPT !.env = [setCurrentTime(@, @.allCandles[1].from)
                          EXCEPT !.agentRef = TRUE],
              !.pc = "initialize",
              !.slot = 0]

\* the agent, inside initialize or onObservation, may call the environment
AgentMayCall(r) == r.pc \in {"initialize", "cycle"} /\ r.slot < MaxCalls

\* the agent has the environment execute an action
AgentActionStep(r, a) ==
    [r EXCEPT !.env = executeAction(@, a).e, !.slot = @ + 1]

\* the agent fetches history with getFirstCandles and prefills a sensor with it
AgentPrefillStep(r, s, count) ==
    [r EXCEPT !.env = prefillSensor(@, s.id,
                          getFirstCandles(@, s.active_id, s.size, count)),
              !.slot = @ + 1]

\* agent.initialize returns: runAgent registers the update callback, and step 9
\* registers the bust callback and enters the replay loop
InitializeReturnsStep(r) ==
    [r EXCEPT !.env.wallet.bustCallback = TRUE,
              !.pc = "loop", !.idx = 1, !.slot = 0]

\* the replay loop goes on with the next candle
LoopContinues(r) ==
    r.pc = "loop" /\ ~r.env.busted /\ r.idx <= Len(r.env.allCandles)

\* one iteration of the replay loop up to the update callback: advance the
\* clock, settle what has expired, feed the candle
ReplayCandleStep(r) ==
    LET candle == r.env.allCandles[r.idx]
        e1  == setCurrentTime(r.env, candle.from)
        e2  == checkExpirations(e1)
        fed == feedCandle(e2, candle)
    IN  [r EXCEPT !.env = fed.e,
                  !.simulatedTime = candle.from,
                  !.pc = IF fed.fired THEN "observe" ELSE "loop",
                  !.idx = IF fed.fired THEN @ ELSE @ + 1,
                  !.slot = 0]

\* the timeFn the runner gives the EventBus: () => simulatedTime
BusTime(r) == r.simulatedTime

\* ctx.now of the AgentContext the runner creates: timeFn, which without the
\* runner's argument would be the wall clock
nowOfWallClock(r) == r.env.startedAt
now(r) == r.simulatedTime

\* the update callback takes the observation and calls agent.onObservation
ObserveStep(r) == [r EXCEPT !.pc = "cycle"]

\* the observation cycle is over; the loop moves to the next candle
CycleReturnsStep(r) == [r EXCEPT !.pc = "loop", !.idx = @ + 1, !.slot = 0]

\* the replay loop has ended: dataset exhausted or bust
LoopEnds(r) ==
    r.pc = "loop" /\ (r.env.busted \/ r.idx > Len(r.env.allCandles))

\* step 10: env.forceCloseAll(lastCandle.close)
ForceCloseStep(r) ==
    [r EXCEPT !.env = forceCloseAll(@, Last(@.allCandles).close),
              !.pc = "done"]

\* the trade actions an agent may still issue
MayTrade(r, a) == a.type = "trade" => r.env.nextPositionId <= MaxTrades

\* what the last sensor operation was: its name, the sensor, the items it
\* carried, the length of the live buffer before it and the handler calls made
Op(op, id, items, len, pushes) ==
    [op |-> op, id |-> id, items |-> items, len |-> len, pushes |-> pushes]
NoOp == Op("none", <<>>, <<>>, 0, <<>>)

\* an AgentRunner after construction: running is false and no timer is set
NewLiveRunner ==
    [running |-> FALSE, started |-> "no", snapshotInterval |-> FALSE,
     durationTimeout |-> "unset", sigint |-> FALSE, pc |-> "idle",
     calls |-> <<>>, events |-> <<>>, periodic |-> 0, finalSnapshots |-> 0,
     statusUpdates |-> 0, exited |-> FALSE]

\* the ATRX agent's configuration, times scaled down to a few seconds
ATRXConfig ==
    [maxOpenTrades |-> 1, cooldownAfterTrade |-> 3, maxConsecutiveLosses |-> 2,
     lossPauseDuration |-> 3, maxTotalLoss |-> 10, entryCandleSize |-> 2]

\* an ATRXAgent after construction
NewATRXAgent ==
    [lastEntryFrom |-> 0, cooldownUntil |-> 0, consecutiveLosses |-> 0,
     pauseUntil |-> 0, stopTrading |-> FALSE]

\* the agent at the start of a run, with the environment's clock, the start of
\* the latest entry candle, the latest call, the entry candles traded on, and
\* the results delivered: their number, the non-win results since the last
\* win, and the time of the latest
NewATRXRun ==
    [agent |-> NewATRXAgent, clock |-> 2, entryFrom |-> 2,
     last |-> [op |-> "none"], tradedFroms |-> <<>>, results |-> 0,
     streak |-> 0, resultAt |-> 0]

\* nothing is held yet
NoSnapshot == [taken |-> FALSE, value |-> snapshot(NewState),
               arrays |-> snapshotArrays(NewState)]
NoCycles == [started |-> 0, inFlight |-> <<>>, requests |-> 0, log |-> <<>>]
NoAgent == [wired |-> FALSE, wiredAt |-> 0, onTradeResult |-> <<>>]
NewLink == [phase |-> "up", reconnects |-> 0, authenticated |-> TRUE, wire |-> <<>>]
NoBatch == [env |-> "none", count |-> 0, actions |-> <<>>, results |-> <<>>]
NoObservation ==
    [taken |-> FALSE, sensors |-> EmptyMap, sensorsThen |-> EmptyMap,
     liveSensors |-> EmptyMap, liveSensorsThen |-> EmptyMap]

Init ==
    /\ RunIs(NewRun(FirstStart))
    /\ activeSensors = EmptyMap
    /\ sensorData = EmptyMap
    /\ updateCallbacks = {}
    /\ handlers = <<>>
    /\ snap = NoSnapshot
    /\ observation = NoObservation
    /\ fedPositions = <<>>
    /\ bus = NewBus
    /\ batch = NoBatch
    /\ link = NewLink
    /\ emitted = <<>>
    /\ cycles = NoCycles
    /\ liveRunner = NewLiveRunner
    /\ atrx = NewATRXRun
    /\ liveAgent = NoAgent
    /\ lastOp = NoOp
    /\ twin = NewRun(SecondStart)

RunAgent ==
    /\ pc = "start"
    /\ SetRun(RunAgentStep(Run))
    /\ UNCHANGED << liveVars, twin, heldVars >>

AgentActionOf(actions) ==
    /\ AgentMayCall(Run)
    /\ \E a \in actions :
          /\ MayTrade(Run, a)
          /\ SetRun(AgentActionStep(Run, a))
    /\ UNCHANGED << liveVars, twin, heldVars >>

AgentAction == AgentActionOf(TradeActions \cup SubscribeActions)

AgentPrefill ==
    /\ AgentMayCall(Run)
    /\ \E s \in ReplaySensors, count \in PrefillCounts :
          SetRun(AgentPrefillStep(Run, s, count))
    /\ UNCHANGED << liveVars, twin, heldVars >>

InitializeReturns ==
    /\ pc = "initialize"
    /\ SetRun(InitializeReturnsStep(Run))
    /\ UNCHANGED << liveVars, twin, heldVars >>

ReplayCandle ==
    /\ LoopContinues(Run)
    /\ SetRun(ReplayCandleStep(Run))
    /\ UNCHANGED << liveVars, twin, heldVars >>

Observe ==
    /\ pc = "observe"
    /\ SetRun(ObserveStep(Run))
    /\ UNCHANGED << liveVars, twin, heldVars >>

CycleReturns ==
    /\ pc = "cycle"
    /\ SetRun(CycleReturnsStep(Run))
    /\ UNCHANGED << liveVars, twin, heldVars >>

ForceClose ==
    /\ LoopEnds(Run)
    /\ SetRun(ForceCloseStep(Run))
    /\ UNCHANGED << liveVars, twin, heldVars >>

Next ==
    \/ RunAgent
    \/ AgentAction
    \/ AgentPrefill
    \/ InitializeReturns
    \/ ReplayCandle
    \/ Observe
    \/ CycleReturns
    \/ ForceClose

Spec == Init /\ [][Next]_vars

\* an agent that stakes the whole balance on one trade
AllInActions ==
    { [type |-> "trade",
       payload |-> [ activeId |-> 1, direction |-> d, price |-> InitialBalance,
                     expirationSize |-> x, currentPrice |-> 10,
                     profitPercent |-> Undefined ]] :
      d \in Directions, x \in ExpirationSizes }

AllInAgentAction ==
    AgentActionOf(AllInActions \cup [type : {"subscribe"}, payload : {CandleSensor(1, 1)}])

NextAllIn ==
    \/ RunAgent
    \/ AllInAgentAction
    \/ InitializeReturns
    \/ ReplayCandle
    \/ Observe
    \/ CycleReturns
    \/ ForceClose

SpecAllIn == Init /\ [][NextAllIn]_vars

\* an agent that puts any number in payload.price: a stake, zero, or a
\* negative amount
AnyStakes == {20, 0, 0 - 100}
AnyStakeActions ==
    { [type |-> "trade",
       payload |-> [ activeId |-> 1, direction |-> d, price |-> p,
                     expirationSize |-> x, currentPrice |-> 10,
                     profitPercent |-> Undefined ]] :
      d \in Directions, p \in AnyStakes, x \in ExpirationSizes }

AnyStakeAgentAction ==
    AgentActionOf(AnyStakeActions \cup [type : {"subscribe"}, payload : {CandleSensor(1, 1)}])

NextAnyStake ==
    \/ RunAgent
    \/ AnyStakeAgentAction
    \/ InitializeReturns
    \/ ReplayCandle
    \/ Observe
    \/ CycleReturns
    \/ ForceClose

SpecAnyStake == Init /\ [][NextAnyStake]_vars


\* ------------------------------------------------- two replays side by side

\* what the agent is given: the observation and the trade results so far
AgentInputs(e) ==
    [observation |-> getObservation(e), tradeResults |-> e.tradeResults]

\* a deterministic agent makes the same call in both replays for as long as it
\* has been given the same inputs
SameDecision(a, b) == AgentInputs(Env) = AgentInputs(twin.env) => a = b

TwinRunAgent ==
    /\ pc = "start" /\ twin.pc = "start"
    /\ SetRun(RunAgentStep(Run))
    /\ twin' = RunAgentStep(twin)
    /\ UNCHANGED << liveVars, heldVars >>

TwinAgentAction ==
    /\ AgentMayCall(Run) /\ AgentMayCall(twin)
    /\ \E a, b \in TradeActions \cup SubscribeActions :
          /\ MayTrade(Run, a) /\ MayTrade(twin, b)
          /\ SameDecision(a, b)
          /\ SetRun(AgentActionStep(Run, a))
          /\ twin' = AgentActionStep(twin, b)
    /\ UNCHANGED << liveVars, heldVars >>

TwinAgentPrefill ==
    /\ AgentMayCall(Run) /\ AgentMayCall(twin)
    /\ \E s, t \in ReplaySensors, count, tcount \in PrefillCounts :
          /\ SameDecision(<<s, count>>, <<t, tcount>>)
          /\ SetRun(AgentPrefillStep(Run, s, count))
          /\ twin' = AgentPrefillStep(twin, t, tcount)
    /\ UNCHANGED << liveVars, heldVars >>

TwinInitializeReturns ==
    /\ pc = "initialize" /\ twin.pc = "initialize"
    /\ SetRun(InitializeReturnsStep(Run))
    /\ twin' = InitializeReturnsStep(twin)
    /\ UNCHANGED << liveVars, heldVars >>

TwinReplayCandle ==
    /\ LoopContinues(Run) /\ LoopContinues(twin)
    /\ SetRun(ReplayCandleStep(Run))
    /\ twin' = ReplayCandleStep(twin)
    /\ UNCHANGED << liveVars, heldVars >>

TwinObserve ==
    /\ pc = "observe" /\ twin.pc = "observe"
    /\ SetRun(ObserveStep(Run))
    /\ twin' = ObserveStep(twin)
    /\ UNCHANGED << liveVars, heldVars >>

TwinCycleReturns ==
    /\ pc = "cycle" /\ twin.pc = "cycle"
    /\ SetRun(CycleReturnsStep(Run))
    /\ twin' = CycleReturnsStep(twin)
    /\ UNCHANGED << liveVars, heldVars >>

TwinForceClose ==
    /\ LoopEnds(Run) /\ LoopEnds(twin)
    /\ SetRun(ForceCloseStep(Run))
    /\ twin' = ForceCloseStep(twin)
    /\ UNCHANGED << liveVars, heldVars >>

NextTwin ==
    \/ TwinRunAgent
    \/ TwinAgentAction
    \/ TwinAgentPrefill
    \/ TwinInitializeReturns
    \/ TwinReplayCandle
    \/ TwinObserve
    \/ TwinCycleReturns
    \/ TwinForceClose

SpecTwin == Init /\ [][NextTwin]_vars

\* ------------------------------------- the sensor buffers, live and backtest

\* the sensors subscribed to, the same in SensorManager and BacktestEnvironment
HarnessSensors == {CandleSensor(1, 1), MoodSensor(1)}
\* push handlers wired into the venue APIs at one time: one per sensor, so that
\* a handler left behind by unsubscribe can be joined by a second one
MaxHandlers == Cardinality(HarnessSensors)

\* candles arrive in chronological order: an update of the running period or
\* the first candle of the next one
ArrivingCandles ==
    { Candle(from, 1, 1, close) :
        from \in MaxOf({currentTime, 1}) .. MinOf({currentTime + 1, MaxPushTime}),
        close \in {10, 11} }

\* a historical fetch: the first candles of the history, none after the clock
HistoryChunk(lo, len) == [i \in 1 .. len |-> Candle(lo + i - 1, 1, 1, 10)]
HistoryChunks ==
    { HistoryChunk(1, len) : len \in 1 .. MinOf({currentTime, MaxPrefillLen}) }

\* mood readings
MoodValues == {50}
MoodHistory == {<<51, 52>>}

\* the data a prefill of the sensor may carry
PrefillData(sensor) ==
    IF sensor.type = "candle" THEN HistoryChunks ELSE MoodHistory

LiveLen(id) == IF id \in DOMAIN sensorData THEN Len(sensorData[id]) ELSE 0

SubscribeOf(sensors) ==
    /\ \E sensor \in sensors :
          /\ sensor.id \in DOMAIN activeSensors \/ Len(handlers) < MaxHandlers
          /\ SetLive(subscribe(Live, sensor))
          /\ SetEnv(executeSubscribe(Env, sensor))
          /\ lastOp' = Op("subscribe", sensor.id, <<>>, LiveLen(sensor.id), <<>>)
    /\ UNCHANGED << runVars, twin, heldVars >>

Subscribe == SubscribeOf(HarnessSensors)

UnsubscribeOf(sensors) ==
    /\ \E sensor \in sensors :
          /\ SetLive(unsubscribe(Live, sensor.id))
          /\ SetEnv(executeUnsubscribe(Env, sensor.id))
          /\ lastOp' = Op("unsubscribe", sensor.id, <<>>, LiveLen(sensor.id), <<>>)
          /\ observation' =
                [observation EXCEPT
                    !.sensors = Deleted(@, sensor.id, sensorBuffers),
                    !.liveSensors = Deleted(@, sensor.id, sensorData)]
    /\ UNCHANGED << runVars, twin, snap, fedPositions, liveAgent, auxVars >>

Unsubscribe == UnsubscribeOf(HarnessSensors)

\* the venue delivers a candle: the handlers wired by SensorManager.subscribe
\* call pushCandle; the replay sets the clock and calls feedCandle
CandleArrives ==
    /\ \E candle \in ArrivingCandles :
          LET id == candleId(candle.active_id, candle.size)
              r  == Deliver(Live, CandleHandlers(handlers, candle.active_id,
                                                 candle.size), candle, <<>>)
          IN  /\ SetLive(r.m)
              /\ SetEnv(feedCandle(setCurrentTime(Env, candle.from), candle).e)
              /\ lastOp' = Op("candle", id, <<candle>>, LiveLen(id), r.done)
    /\ UNCHANGED << runVars, twin, heldVars >>

\* the venue delivers a mood reading: the handlers wired call pushData
MoodArrives ==
    /\ \E mood \in MoodValues :
          LET r == Deliver(Live, MoodHandlers(handlers, 1), mood, <<>>)
          IN  /\ SetLive(r.m)
              /\ lastOp' = Op("mood", moodId(1), <<mood>>, LiveLen(moodId(1)),
                              r.done)
    /\ UNCHANGED << envVars, runVars, twin, heldVars >>

PrefillOf(sensors) ==
    /\ \E sensor \in sensors :
          \E data \in PrefillData(sensor) :
             /\ SetLive(prefill(Live, sensor.id, data).m)
             /\ SetEnv(prefillSensor(Env, sensor.id, data))
             /\ lastOp' = Op("prefill", sensor.id, data, LiveLen(sensor.id),
                             prefill(Live, sensor.id, data).done)
    /\ UNCHANGED << runVars, twin, heldVars >>

Prefill == PrefillOf(HarnessSensors)

Callbacks == {"cb1"}

OnUpdate ==
    /\ \E callback \in Callbacks :
          /\ SetLive(onUpdate(Live, callback))
          /\ lastOp' = Op("onUpdate", <<>>, <<>>, 0, <<>>)
    /\ UNCHANGED << envVars, runVars, twin, heldVars >>

OffUpdate ==
    /\ \E callback \in Callbacks :
          /\ SetLive(offUpdate(Live, callback))
          /\ lastOp' = Op("offUpdate", <<>>, <<>>, 0, <<>>)
    /\ UNCHANGED << envVars, runVars, twin, heldVars >>

NextSensors ==
    \/ Subscribe
    \/ Unsubscribe
    \/ CandleArrives
    \/ MoodArrives
    \/ Prefill
    \/ OnUpdate
    \/ OffUpdate

SpecSensors == Init /\ [][NextSensors]_vars


\* ------------------------------------------------------- EnvironmentState

\* the positions pushed to EnvironmentState.onPositionChanged
PositionIds == {1, 2}
\* pnl and close_reason of a closed position; the pnl may be absent
CloseOutcomes ==
    { <<16, "win">>, <<0 - 20, "loss">>, <<0, "tie">>, <<Undefined, "loss">> }
HarnessPosition(id, status, pnl, closeReason) ==
    [id |-> id, status |-> status, pnl |-> pnl, close_reason |-> closeReason]
OpenUpdates == { HarnessPosition(id, "open", pnl, "") : id \in PositionIds, pnl \in {0, 16} }
ClosedUpdates ==
    { HarnessPosition(id, "closed", o[1], o[2]) : id \in PositionIds, o \in CloseOutcomes }

\* a position-changed event reaches the state
PositionChangedWith(updates) ==
    /\ \E pos \in updates :
          /\ pos.status = "closed" => Len(fedPositions) < MaxCloses
          /\ state' = onPositionChanged(state, pos)
          /\ fedPositions' = IF pos.status = "closed"
                             THEN Append(fedPositions, pos) ELSE fedPositions
          /\ lastOp' = Op("position", pos.id, <<pos>>, Len(state.openPositions), <<>>)
    /\ UNCHANGED << allCandles, payoutPercent, sensorBuffers, subscribedSensors,
                    pendingTrades, currentTime, wallet, nextPositionId, agentRef,
                    busted, startedAt, recorded, tradeResults, tradeLog,
                    runVars, activeSensors, sensorData, updateCallbacks,
                    handlers, twin, observation, auxVars >>
    /\ liveAgent' = tradeResultHandler(liveAgent, lastOp'.items[1])
    /\ snap' = IF lastOp'.items[1].status = "closed"
               THEN [snap EXCEPT !.arrays.openPositions =
                                    Reassigned(@, state.openPositions)]
               ELSE snap

PositionChanged == PositionChangedWith(OpenUpdates \cup ClosedUpdates)

NextState == PositionChanged

SpecState == Init /\ [][NextState]_vars


\* a caller takes a snapshot and holds on to it
TakeSnapshot ==
    /\ ~snap.taken
    /\ snap' = [taken |-> TRUE, value |-> snapshot(state),
                arrays |-> snapshotArrays(state)]
    /\ UNCHANGED << envVars, runVars, liveVars, twin, observation, fedPositions, liveAgent, auxVars >>

\* the balances the environment writes into the state
Balances == {InitialBalance, InitialBalance + 16}

\* "this.state.balance = this.wallet.getBalance()"
BalanceChanges ==
    /\ \E b \in Balances \ {state.balance} : state' = [state EXCEPT !.balance = b]
    /\ UNCHANGED << allCandles, payoutPercent, sensorBuffers, subscribedSensors,
                    pendingTrades, currentTime, wallet, nextPositionId, agentRef,
                    busted, startedAt, recorded, tradeResults, tradeLog,
                    runVars, liveVars, twin, heldVars >>

\* the position updates that arrive while a snapshot may be held
HeldUpdates == { pos \in OpenUpdates \cup ClosedUpdates : pos.close_reason \in {"", "win"} }

HeldPositionChanged == PositionChangedWith(HeldUpdates)

NextSnapshot ==
    \/ HeldPositionChanged
    \/ TakeSnapshot
    \/ BalanceChanges

SpecSnapshot == Init /\ [][NextSnapshot]_vars


\* getObservation is called, in the backtest and in the live environment, and
\* the caller keeps what it was given
GetObservation ==
    /\ ~observation.taken
    /\ observation' =
          [taken |-> TRUE,
           sensors |-> MapCopy(sensorBuffers), sensorsThen |-> sensorBuffers,
           liveSensors |-> MapCopy(sensorData), liveSensorsThen |-> sensorData]
    /\ UNCHANGED << envVars, runVars, liveVars, twin, snap, fedPositions, liveAgent, auxVars >>

\* the sensors in use while an observation may be held
ObservedSensors == {CandleSensor(1, 1)}

ObservedSubscribe == SubscribeOf(ObservedSensors)
ObservedUnsubscribe == UnsubscribeOf(ObservedSensors)
ObservedPrefill == PrefillOf(ObservedSensors)

NextObserve ==
    \/ ObservedSubscribe
    \/ ObservedUnsubscribe
    \/ CandleArrives
    \/ ObservedPrefill
    \/ GetObservation

SpecObserve == Init /\ [][NextObserve]_vars


\* ------------------------------------------------- executeActions callers

\* the longest batch of actions handed to executeActions
MaxBatchLen == 2

BatchPayload(price) ==
    [ activeId |-> 1, direction |-> "call", price |-> price, expirationSize |-> 2,
      currentPrice |-> 10, profitPercent |-> Undefined ]

\* the actions of a batch: a trade the wallet covers and one it does not, a
\* subscribe, an unsubscribe, a known and an unknown query, an unknown type
BatchActions ==
    { [type |-> "trade", payload |-> BatchPayload(20)],
      [type |-> "trade", payload |-> BatchPayload(InitialBalance + 20)],
      [type |-> "subscribe", payload |-> CandleSensor(1, 1)],
      [type |-> "unsubscribe", payload |-> [sensorId |-> candleId(1, 1)]],
      [type |-> "query", payload |-> [method |-> "getBalances"]],
      [type |-> "query", payload |-> [method |-> "getWeather"]],
      [type |-> "dance", payload |-> [sensorId |-> candleId(1, 1)]] }

Batches == UNION { [1 .. n -> BatchActions] : n \in 0 .. MaxBatchLen }

\* an agent's actions are executed by the backtest environment
BacktestBatch ==
    /\ batch.env = "none"
    /\ \E actions \in Batches :
          LET r == executeActions(Env, bus, actions)
          IN  /\ SetEnv(r.e)
              /\ bus' = r.bus
              /\ batch' = [env |-> "backtest", count |-> batch.count + 1,
                           actions |-> actions, results |-> r.results]
    /\ UNCHANGED << runVars, liveVars, twin, snap, observation, fedPositions, liveAgent, link, emitted, cycles, liveRunner, atrx >>

\* an agent's actions are executed by the live environment
LiveBatch ==
    /\ batch.env = "none"
    /\ \E actions \in Batches :
          \E answers \in [1 .. Len(actions) -> BOOLEAN] :
             LET r == liveExecuteActions(Live, bus, actions, answers, startedAt)
             IN  /\ SetLive(r.m)
                 /\ bus' = r.bus
                 /\ batch' = [env |-> "live", count |-> batch.count + 1,
                              actions |-> actions, results |-> r.results]
    /\ UNCHANGED << envVars, runVars, lastOp, twin, snap, observation,
                    fedPositions, liveAgent, link, emitted, cycles, liveRunner, atrx >>

NextBatch ==
    \/ BacktestBatch
    \/ LiveBatch

SpecBatch == Init /\ [][NextBatch]_vars


\* ------------------------------------------------------- live reconnects

\* transport reconnects in one run
MaxReconnects == 2

ReconnectSensors ==
    {CandleSensor(1, 1), MoodSensor(1), PositionSensor(1), OrderSensor(1),
     BalanceSensor(1)}

LiveSubscribe == SubscribeOf(ReconnectSensors)
LiveUnsubscribe == UnsubscribeOf(ReconnectSensors)

\* the transport reconnects: the handler starts and awaits authenticateWs
Reconnects ==
    /\ link.phase = "up"
    /\ link.reconnects < MaxReconnects
    /\ link' = [link EXCEPT !.phase = "auth", !.reconnects = @ + 1]
    /\ UNCHANGED << envVars, runVars, liveVars, twin, snap, observation,
                    fedPositions, liveAgent, bus, batch, emitted, cycles, liveRunner, atrx >>

\* authenticateWs resolves or rejects and the handler runs to its end
AuthenticationEnds ==
    /\ link.phase = "auth"
    /\ \E ok \in BOOLEAN :
          LET r == IF ok THEN onReconnectAuthenticated(Live, bus, link, startedAt)
                   ELSE onReconnectRejected(Live, bus, link)
          IN  /\ link' = r.link
              /\ bus' = r.bus
    /\ UNCHANGED << envVars, runVars, liveVars, twin, snap, observation,
                    fedPositions, liveAgent, batch, emitted, cycles, liveRunner, atrx >>

NextReconnect ==
    \/ LiveSubscribe
    \/ LiveUnsubscribe
    \/ Reconnects
    \/ AuthenticationEnds

SpecReconnect == Init /\ [][NextReconnect]_vars


\* ------------------------------------------------------- live agent hooks

\* TradingEnvironment.runAgent is called
LiveRunAgent ==
    /\ ~liveAgent.wired
    /\ liveAgent' = liveRunAgent(liveAgent, Len(fedPositions))
    /\ UNCHANGED << envVars, runVars, liveVars, twin, snap, observation,
                    fedPositions, auxVars >>

NextLiveAgent ==
    \/ LiveRunAgent
    \/ HeldPositionChanged

SpecLiveAgent == Init /\ [][NextLiveAgent]_vars


\* ------------------------------------------------------- event bus

\* events emitted on the bus in one run
MaxEmits == 3

RunnerEventTypes == {"trade:placed"}
AgentEventTypes == {"agent:custom", "agent", "trade:closed", "wallet:changed"}
ListenedTypes == {"*", "trade:closed"}

\* an event handed to EventBus.emit, and whether persistence was wired then
Emitted(type, payload) ==
    [event |-> TradingEvent(type, startedAt, payload), persisted |-> bus.persistFn]
NextPayload == [n |-> Len(emitted) + 1]

\* the runner or an environment emits an event
Emit ==
    /\ Len(emitted) < MaxEmits
    /\ \E type \in RunnerEventTypes :
          /\ bus' = emit(bus, type, startedAt, NextPayload)
          /\ emitted' = Append(emitted, Emitted(type, NextPayload))
          /\ lastOp' = Op("emit", type, <<>>, 0, <<>>)
    /\ UNCHANGED << envVars, runVars, activeSensors, sensorData, updateCallbacks,
                    handlers, twin, snap, observation, fedPositions, liveAgent,
                    batch, link, cycles, liveRunner, atrx >>

\* the runner wires persistence
SetPersist ==
    /\ bus' = setPersist(bus)
    /\ lastOp' = Op("setPersist", <<>>, <<>>, Len(bus.buffer), <<>>)
    /\ UNCHANGED << envVars, runVars, activeSensors, sensorData, updateCallbacks,
                    handlers, twin, snap, observation, fedPositions, liveAgent,
                    batch, link, emitted, cycles, liveRunner, atrx >>

\* a trade is placed (debit of the stake) or settles as a win (credit)
WalletMoves ==
    /\ wallet.peak = InitialBalance
    /\ \/ /\ wallet.balance = InitialBalance
          /\ SetEnv(debit(Env, 20))
       \/ /\ wallet.balance < InitialBalance
          /\ SetEnv(credit(Env, 36))
    /\ lastOp' = Op("wallet", <<>>, <<>>, 0, <<>>)
    /\ UNCHANGED << runVars, activeSensors, sensorData, updateCallbacks,
                    handlers, twin, heldVars >>

\* the agent calls ctx.events.emit
CtxEventsEmit ==
    /\ Len(emitted) < MaxEmits
    /\ \E type \in AgentEventTypes :
          /\ bus' = ctxEventsEmit(bus, type, startedAt, NextPayload)
          /\ emitted' = IF startsWith(type, "agent:")
                        THEN Append(emitted, Emitted(type, NextPayload))
                        ELSE emitted
          /\ lastOp' = Op("ctx.events.emit", type, <<>>, 0, <<>>)
    /\ UNCHANGED << envVars, runVars, activeSensors, sensorData, updateCallbacks,
                    handlers, twin, snap, observation, fedPositions, liveAgent,
                    batch, link, cycles, liveRunner, atrx >>

\* the agent calls ctx.events.on
CtxEventsOn ==
    /\ \E type \in ListenedTypes :
          /\ bus' = ctxEventsOn(bus, type)
          /\ lastOp' = Op("ctx.events.on", type, <<>>, 0, <<>>)
    /\ UNCHANGED << envVars, runVars, activeSensors, sensorData, updateCallbacks,
                    handlers, twin, snap, observation, fedPositions, liveAgent,
                    batch, link, emitted, cycles, liveRunner, atrx >>

\* the agent calls ctx.log.debug or ctx.log.signal
CtxLog ==
    /\ Len(emitted) < MaxEmits
    /\ \E level \in {"debug", "signal"} :
          /\ bus' = ctxLog(bus, level, startedAt, NextPayload)
          /\ emitted' = Append(emitted,
                               Emitted(IF level = "debug" THEN "agent:debug"
                                       ELSE "agent:signal", NextPayload))
          /\ lastOp' = Op("ctx.log", level, <<>>, 0, <<>>)
    /\ UNCHANGED << envVars, runVars, activeSensors, sensorData, updateCallbacks,
                    handlers, twin, snap, observation, fedPositions, liveAgent,
                    batch, link, cycles, liveRunner, atrx >>

\* the agent reads ctx.wallet
CtxWallet ==
    /\ lastOp' = Op("ctx.wallet", <<>>, <<ctxWallet(wallet)>>, 0, <<>>)
    /\ UNCHANGED << envVars, runVars, activeSensors, sensorData, updateCallbacks,
                    handlers, twin, heldVars >>

CtxOps == {"ctx.events.emit", "ctx.events.on", "ctx.log", "ctx.wallet"}

NextBus ==
    \/ Emit
    \/ SetPersist
    \/ WalletMoves
    \/ CtxEventsEmit
    \/ CtxEventsOn
    \/ CtxLog
    \/ CtxWallet

SpecBus == Init /\ [][NextBus]_vars


\* ------------------------------------------------------- live cycles

\* sensor updates delivered in one run
MaxCycles == 3

\* what agent.onObservation returns: trades, each a request to the venue
CycleActions == { <<>>, <<"trade">>, <<"trade", "trade">> }

\* a sensor update is pushed: SensorManager calls the update callback
SensorUpdate ==
    /\ cycles.started < MaxCycles
    /\ \E actions \in CycleActions : cycles' = updateCallback(cycles, actions)
    /\ UNCHANGED << envVars, runVars, liveVars, twin, snap, observation,
                    fedPositions, liveAgent, bus, batch, link, emitted,
                    liveRunner, atrx >>

\* the venue answers a pending request
VenueAnswers ==
    /\ \E k \in 1 .. Len(cycles.inFlight) : cycles' = actionSettles(cycles, k)
    /\ UNCHANGED << envVars, runVars, liveVars, twin, snap, observation,
                    fedPositions, liveAgent, bus, batch, link, emitted,
                    liveRunner, atrx >>

NextCycles ==
    \/ SensorUpdate
    \/ VenueAnswers

SpecCycles == Init /\ [][NextCycles]_vars


\* ------------------------------------------------- history fetches in a replay

\* the ranges [from, to] an agent asks getCandles for
FetchRanges == { <<1, 2>>, <<1, 4>>, <<3, 4>> }

\* the agent subscribes to a candle sensor
AgentSubscribes == AgentActionOf(SubscribeActions)

\* the agent, inside initialize or onObservation, fetches candles of instrument
\* 1: through the candles API or through a getCandles query action
AgentFetches ==
    /\ AgentMayCall(Run)
    /\ \E range \in FetchRanges, via \in {"getCandles", "getFirstCandles", "query"} :
          lastOp' = Op(via, range,
                       IF via = "getCandles"
                       THEN getCandles(Env, 1, 1, range[1], range[2])
                       ELSE IF via = "getFirstCandles"
                       THEN getFirstCandles(Env, 1, 1, range[2])
                       ELSE executeAction(Env,
                               [type |-> "query",
                                payload |-> [method |-> "getCandles",
                                             params |-> [activeId |-> 1, size |-> 1,
                                                         from |-> range[1],
                                                         to |-> range[2]]]]).result,
                       currentTime, <<>>)
    /\ slot' = slot + 1
    /\ UNCHANGED << envVars, pc, idx, simulatedTime, activeSensors, sensorData,
                    updateCallbacks, handlers, twin, heldVars >>

NextFetch ==
    \/ RunAgent
    \/ AgentSubscribes
    \/ AgentFetches
    \/ InitializeReturns
    \/ ReplayCandle
    \/ Observe
    \/ CycleReturns
    \/ ForceClose

SpecFetch == Init /\ [][NextFetch]_vars


\* ------------------------------------------------- AgentRunner: start and stop

\* AgentRunner.stop without its guard on the running flag
stopUnguarded(r, reason) ==
    [r EXCEPT !.calls = Append(@, reason),
              !.running = FALSE,
              !.snapshotInterval = FALSE,
              !.durationTimeout = IF @ = "armed" THEN "cleared" ELSE @,
              !.events = Append(@, [type |-> "run:stopped", reason |-> reason]),
              !.pc = "sendSnapshot"]

\* AgentRunner.stop up to its first await: returns when the run is not
\* running; otherwise clears the flag and both timers and emits run:stopped
stop(r, reason) ==
    IF ~r.running THEN [r EXCEPT !.calls = Append(@, reason)]
    ELSE stopUnguarded(r, reason)

\* AgentRunner.start up to 'await env.runAgent': run:started is emitted, the
\* run is marked running and the bust callback is wired
startMarksRunning(r) ==
    [r EXCEPT !.events = Append(@, [type |-> "run:started", reason |-> ""]),
              !.running = TRUE,
              !.started = "running"]

\* AgentRunner.start after 'await env.runAgent': the snapshot interval, the
\* max-duration timeout and the SIGINT handler are set
startArmsTimers(r, maxDuration) ==
    [r EXCEPT !.snapshotInterval = TRUE,
              !.durationTimeout = IF maxDuration THEN "armed" ELSE @,
              !.sigint = TRUE,
              !.started = "armed"]

\* the calls to stop one run sees
MaxStopCalls == 4

\* the process is alive and may receive another stop call
MayStop == ~liveRunner.exited /\ Len(liveRunner.calls) < MaxStopCalls

RunnerUnchanged ==
    UNCHANGED << envVars, runVars, liveVars, twin, snap, observation,
                 fedPositions, liveAgent, bus, batch, link, emitted, cycles,
                 atrx >>

StartMarksRunning ==
    /\ liveRunner.started = "no"
    /\ liveRunner' = startMarksRunning(liveRunner)
    /\ RunnerUnchanged

StartArmsTimers ==
    /\ liveRunner.started = "running"
    /\ ~liveRunner.exited
    /\ \E maxDuration \in BOOLEAN :
          liveRunner' = startArmsTimers(liveRunner, maxDuration)
    /\ RunnerUnchanged

\* the wallet's bust callback runs
WalletBusts ==
    /\ liveRunner.started # "no"
    /\ MayStop
    /\ liveRunner' = stop(liveRunner, "bust")
    /\ RunnerUnchanged

\* the max-duration timeout fires, once
DurationTimeout ==
    /\ liveRunner.durationTimeout = "armed"
    /\ MayStop
    /\ liveRunner' = stop([liveRunner EXCEPT !.durationTimeout = "fired"], "timeout")
    /\ RunnerUnchanged

Sigint ==
    /\ liveRunner.sigint
    /\ MayStop
    /\ liveRunner' = stop(liveRunner, "user")
    /\ RunnerUnchanged

\* any other caller of the public stop method, before or after start
StopCalled ==
    /\ MayStop
    /\ liveRunner' = stop(liveRunner, "manual")
    /\ RunnerUnchanged

\* the 30 s interval fires
PeriodicSnapshot ==
    /\ liveRunner.snapshotInterval
    /\ ~liveRunner.exited
    /\ liveRunner.periodic < 1
    /\ liveRunner' = [liveRunner EXCEPT !.periodic = @ + 1]
    /\ RunnerUnchanged

\* stop resumes: 'await this.sendSnapshot()'
StopSendsSnapshot ==
    /\ liveRunner.pc = "sendSnapshot"
    /\ liveRunner' = [liveRunner EXCEPT !.finalSnapshots = @ + 1,
                                        !.pc = "updateRun"]
    /\ RunnerUnchanged

\* stop resumes: the PATCH of the run's status is sent (a failure is caught)
StopUpdatesRun ==
    /\ liveRunner.pc = "updateRun"
    /\ liveRunner' = [liveRunner EXCEPT !.statusUpdates = @ + 1, !.pc = "exit"]
    /\ RunnerUnchanged

\* stop ends: process.exit(0)
StopExits ==
    /\ liveRunner.pc = "exit"
    /\ liveRunner' = [liveRunner EXCEPT !.exited = TRUE, !.pc = "done"]
    /\ RunnerUnchanged

NextRunner ==
    \/ StartMarksRunning
    \/ StartArmsTimers
    \/ WalletBusts
    \/ DurationTimeout
    \/ Sigint
    \/ StopCalled
    \/ PeriodicSnapshot
    \/ StopSendsSnapshot
    \/ StopUpdatesRun
    \/ StopExits

SpecRunner == Init /\ [][NextRunner]_vars


\* --------------------------------------------------------- ATRXAgent: gating

\* safeNow: the observation's timestamp, the wall clock when it is 0
safeNow(obs, wallClock) == IF obs.timestamp # 0 THEN obs.timestamp ELSE wallClock

\* ATRXAgent.onObservation without the cooldown gate
onObservationWithoutCooldown(a, cfg, obs, wallClock, ready, signal) ==
    IF a.stopTrading THEN [agent |-> a, trade |-> FALSE]
    ELSE IF cfg.maxTotalLoss > 0 /\ obs.totalPnl <= 0 - cfg.maxTotalLoss
    THEN [agent |-> [a EXCEPT !.stopTrading = TRUE], trade |-> FALSE]
    ELSE IF safeNow(obs, wallClock) < a.pauseUntil THEN [agent |-> a, trade |-> FALSE]
    ELSE IF obs.openPositions >= cfg.maxOpenTrades THEN [agent |-> a, trade |-> FALSE]
    ELSE IF ~ready THEN [agent |-> a, trade |-> FALSE]
    ELSE IF obs.entryFrom = a.lastEntryFrom THEN [agent |-> a, trade |-> FALSE]
    ELSE IF ~signal
    THEN [agent |-> [a EXCEPT !.lastEntryFrom = obs.entryFrom], trade |-> FALSE]
    ELSE [agent |-> [a EXCEPT !.lastEntryFrom = obs.entryFrom,
                              !.cooldownUntil =
                                  safeNow(obs, wallClock) + cfg.cooldownAfterTrade],
          trade |-> TRUE]

\* ATRXAgent.onObservation: the gates in the order of the code, then the
\* once-per-entry-candle test; ready stands for the payout and buffer-length
\* tests, signal for the strategy between the gates and the trade, which
\* assigns none of the gating fields
onObservation(a, cfg, obs, wallClock, ready, signal) ==
    IF a.stopTrading THEN [agent |-> a, trade |-> FALSE]
    ELSE IF cfg.maxTotalLoss > 0 /\ obs.totalPnl <= 0 - cfg.maxTotalLoss
    THEN [agent |-> [a EXCEPT !.stopTrading = TRUE], trade |-> FALSE]
    ELSE IF safeNow(obs, wallClock) < a.pauseUntil THEN [agent |-> a, trade |-> FALSE]
    ELSE IF safeNow(obs, wallClock) < a.cooldownUntil THEN [agent |-> a, trade |-> FALSE]
    ELSE IF obs.openPositions >= cfg.maxOpenTrades THEN [agent |-> a, trade |-> FALSE]
    ELSE IF ~ready THEN [agent |-> a, trade |-> FALSE]
    ELSE IF obs.entryFrom = a.lastEntryFrom THEN [agent |-> a, trade |-> FALSE]
    ELSE IF ~signal
    THEN [agent |-> [a EXCEPT !.lastEntryFrom = obs.entryFrom], trade |-> FALSE]
    ELSE [agent |-> [a EXCEPT !.lastEntryFrom = obs.entryFrom,
                              !.cooldownUntil =
                                  safeNow(obs, wallClock) + cfg.cooldownAfterTrade],
          trade |-> TRUE]

\* ATRXAgent.onTradeResult; ctxNow is what ctx.now() returns
onTradeResult(a, cfg, position, ctxNow) ==
    IF position.close_reason = "win" THEN [a EXCEPT !.consecutiveLosses = 0]
    ELSE [a EXCEPT !.consecutiveLosses = @ + 1,
                   !.pauseUntil = IF a.consecutiveLosses + 1 >= cfg.maxConsecutiveLosses
                                  THEN ctxNow + cfg.lossPauseDuration
                                  ELSE @]

\* the environment's clock stops here
MaxNow == 7

\* the trade results one run delivers
MaxResults == 3

ATRXUnchanged ==
    UNCHANGED << envVars, runVars, liveVars, twin, snap, observation,
                 fedPositions, liveAgent, bus, batch, link, emitted, cycles,
                 liveRunner >>

\* the environment's time advances by a second
ClockTicks ==
    /\ atrx.clock < MaxNow
    /\ atrx' = [atrx EXCEPT !.clock = @ + 1, !.last = [op |-> "tick"]]
    /\ ATRXUnchanged

\* the entry sensor receives the candle of the current period
EntryCandleArrives ==
    /\ atrx.entryFrom # atrx.clock - (atrx.clock % ATRXConfig.entryCandleSize)
    /\ atrx' = [atrx EXCEPT
                   !.entryFrom = atrx.clock - (atrx.clock % ATRXConfig.entryCandleSize),
                   !.last = [op |-> "candle"]]
    /\ ATRXUnchanged

\* a sensor update: the environment calls onObservation
ATRXObserves ==
    /\ \E open \in {0, ATRXConfig.maxOpenTrades},
          totalPnl \in {0, 0 - ATRXConfig.maxTotalLoss},
          ready \in BOOLEAN, signal \in BOOLEAN :
          LET obs == [timestamp |-> atrx.clock, openPositions |-> open,
                      totalPnl |-> totalPnl, entryFrom |-> atrx.entryFrom]
              out == onObservation(atrx.agent, ATRXConfig, obs, atrx.clock,
                                   ready, signal)
          IN atrx' = [atrx EXCEPT
                         !.agent = out.agent,
                         !.last = [op |-> "onObservation", obs |-> obs,
                                   trade |-> out.trade],
                         !.tradedFroms = IF out.trade THEN Append(@, obs.entryFrom)
                                         ELSE @]
    /\ ATRXUnchanged

\* a position closes: the environment calls onTradeResult
ATRXTradeResult ==
    /\ atrx.results < MaxResults
    /\ \E reason \in {"win", "loss", "tie"} :
          atrx' = [atrx EXCEPT
                      !.agent = onTradeResult(@, ATRXConfig,
                                              [close_reason |-> reason], atrx.clock),
                      !.last = [op |-> "onTradeResult"],
                      !.results = @ + 1,
                      !.streak = IF reason = "win" THEN 0 ELSE @ + 1,
                      !.resultAt = atrx.clock]
    /\ ATRXUnchanged

NextATRX ==
    \/ ClockTicks
    \/ EntryCandleArrives
    \/ ATRXObserves
    \/ ATRXTradeResult

SpecATRX == Init /\ [][NextATRX]_vars


\* ================================================================ claims

\* entries of the log s that satisfy ... are counted through their indices
Indices(s) == 1..Len(s)

\* ids of the trades placed so far
PlacedIds == 1..(nextPositionId - 1)

\* C1: whenever onObservation is about to be invoked for a candle with period
\* start t, no pending trade and no observed open position has an expiration
\* time <= t: everything due at or before t has been settled.
C1_SettledBeforeObservation ==
    pc = "observe" =>
        LET obs == getObservation(Env)
        IN  /\ obs.timestamp = allCandles[idx].from
            /\ \A k \in Indices(obs.state.openPositions) :
                   obs.state.openPositions[k].expiration_time > obs.timestamp
            /\ \A k \in Indices(pendingTrades) :
                   pendingTrades[k].expirationTime > obs.timestamp

\* an observation at whose candle a trade due at that time was just settled
C1_Witness ==
    /\ pc = "observe"
    /\ \E k \in Indices(recorded) :
          /\ recorded[k].closedAt = currentTime
          /\ recorded[k].trade.expirationTime = currentTime

\* C2: every placed trade is either pending once and open once, or settled
\* once: then it is in the pending list no more, EnvironmentState received its
\* closed position once, the trade-resolved callback fired once and
\* agent.onTradeResult was called once; a settled trade is not open.
C2_SettledExactlyOnce ==
    /\ \A id \in PlacedIds :
          /\ CountId(pendingTrades, id) + CountId(recorded, id) = 1
          /\ CountId(state.openPositions, id) = CountId(pendingTrades, id)
          /\ CountId(state.recentClosed, id) = CountId(recorded, id)
          /\ CountId(tradeResults, id) = CountId(recorded, id)
    /\ state.closedCount = Len(recorded)
    /\ \A k \in Indices(recorded) : recorded[k].id \in PlacedIds
    /\ \A k \in Indices(pendingTrades) : pendingTrades[k].id \in PlacedIds

\* the run is over, one trade was settled at its expiration and one by the
\* forced close
C2_Witness ==
    /\ pc = "done"
    /\ \E j, k \in Indices(recorded) :
          /\ recorded[j].closedAt < currentTime
          /\ recorded[k].trade.expirationTime > currentTime

\* the placement at j and the settlement at k of the same trade, with no wallet
\* movement of another trade in between
PlacedThenSettled(j, k) ==
    /\ j < k
    /\ tradeLog[j].kind = "place"
    /\ tradeLog[k].kind = "settle"
    /\ tradeLog[j].trade.id = tradeLog[k].trade.id
    /\ \A m \in (j + 1)..(k - 1) : tradeLog[m].before = tradeLog[m].after

\* C3: a trade settled at closeQuote = openQuote has pnl 0 and leaves the wallet
\* at the balance it had right before the trade was placed.
C3_TieRefund ==
    \A j, k \in Indices(tradeLog) :
        (PlacedThenSettled(j, k) /\ tradeLog[k].closePrice = tradeLog[k].trade.openQuote)
            => /\ tradeLog[k].pnl = 0
               /\ tradeLog[k].result = "tie"
               /\ tradeLog[k].after = tradeLog[j].before
               /\ tradeLog[j].after = tradeLog[j].before - tradeLog[j].trade.invest

\* a call and a put have been settled at their open quote
C3_Witness ==
    \E j, k, m, n \in Indices(tradeLog) :
        /\ PlacedThenSettled(j, k) /\ PlacedThenSettled(m, n)
        /\ tradeLog[k].closePrice = tradeLog[k].trade.openQuote
        /\ tradeLog[n].closePrice = tradeLog[n].trade.openQuote
        /\ tradeLog[k].trade.direction = "call"
        /\ tradeLog[n].trade.direction = "put"

\* number of settlements recorded with this result
\* C4: a tie counts neither as a win nor as a loss: a step that settles ties
\* only leaves winCount and lossCount of EnvironmentState as they were.
C4_TieCountsNeither ==
    [][ ( /\ Len(recorded') > Len(recorded)
          /\ \A k \in (Len(recorded) + 1)..Len(recorded') :
                 recorded'[k].result = "tie" )
        => ( /\ state'.winCount = state.winCount
             /\ state'.lossCount = state.lossCount ) ]_vars

\* C5: a settlement with closeQuote # openQuote is a win exactly for a call
\* that closed higher or a put that closed lower; a win has
\* pnl = invest * profitPercent / 100 and credits invest + pnl (20 at 85%:
\* pnl 17, wallet + 37); anything else is a loss with pnl = -invest and no
\* wallet movement.
C5_WinLossSettlement ==
    \A k \in Indices(tradeLog) :
        LET s == tradeLog[k]
            t == s.trade
        IN  (s.kind = "settle" /\ s.closePrice # t.openQuote) =>
              /\ s.result \in {"win", "loss"}
              /\ (s.result = "win") <=>
                    \/ (t.direction = "call" /\ s.closePrice > t.openQuote)
                    \/ (t.direction = "put" /\ s.closePrice < t.openQuote)
              /\ s.result = "win" =>
                    /\ s.pnl * 100 = t.invest * t.profitPercent
                    /\ s.after = s.before + t.invest + s.pnl
                    /\ (t.invest = 20 /\ t.profitPercent = 85) =>
                           (s.pnl = 17 /\ s.after - s.before = 37)
              /\ s.result = "loss" =>
                    /\ s.pnl = -t.invest
                    /\ s.after = s.before

\* a call won at 85% and a put lost
C5_Witness ==
    \E j, k \in Indices(tradeLog) :
        /\ tradeLog[j].kind = "settle" /\ tradeLog[j].result = "win"
        /\ tradeLog[j].trade.direction = "call"
        /\ tradeLog[j].trade.profitPercent = 85
        /\ tradeLog[j].pnl = 17
        /\ tradeLog[k].kind = "settle" /\ tradeLog[k].result = "loss"
        /\ tradeLog[k].trade.direction = "put"

\* the candles of the dataset that belong to an instrument
CandlesOf(activeId) ==
    {k \in Indices(allCandles) : allCandles[k].active_id = activeId}

\* settled at the close of the last dataset candle of the trade's instrument
AtOwnLastClose(r) ==
    /\ CandlesOf(r.trade.activeId) # {}
    /\ r.closePrice = allCandles[MaxOf(CandlesOf(r.trade.activeId))].close

\* ... or, when the dataset has no candle of that instrument, at the close of
\* the last dataset candle
AtOwnLastCloseOrLast(r) ==
    IF CandlesOf(r.trade.activeId) # {} THEN AtOwnLastClose(r)
    ELSE r.closePrice = Last(allCandles).close

\* the forced close settles every pending trade once, in order, and empties the
\* pending list; each at its own instrument's last close (own), or with the
\* dataset's last close standing in for an instrument without candles
ForcedCloseSettles(own) ==
    (pc = "loop" /\ pc' = "done") =>
        /\ pendingTrades' = <<>>
        /\ Len(recorded') = Len(recorded) + Len(pendingTrades)
        /\ \A k \in Indices(pendingTrades) :
              /\ recorded'[Len(recorded) + k].trade = pendingTrades[k]
              /\ IF own THEN AtOwnLastClose(recorded'[Len(recorded) + k])
                 ELSE AtOwnLastCloseOrLast(recorded'[Len(recorded) + k])

\* when the run is over every placed trade has been settled once
AllSettledWhenDone ==
    pc = "done" =>
        /\ pendingTrades = <<>>
        /\ \A id \in PlacedIds : CountId(recorded, id) = 1

\* C6 as stated: when the replay loop ends, forceCloseAll settles every still
\* pending trade once, each at the close of the last dataset candle of its own
\* instrument, and every placed trade is settled when run returns.
C6_ForceCloseOwnInstrument ==
    [][ForcedCloseSettles(TRUE)]_vars

\* C6 amended: ... each at the close of the last dataset candle of its own
\* instrument or, when the dataset holds no candle of that instrument, at the
\* close of the last candle of the dataset.
C6_ForceCloseAll ==
    /\ [][ForcedCloseSettles(FALSE)]_vars
    /\ []AllSettledWhenDone

\* the run is over; a trade on instrument 1 was force-closed at the last close
\* of instrument 1, which is not the last close of the dataset, and a trade on
\* an instrument without candles at the last close of the dataset
C6_Witness ==
    /\ pc = "done"
    /\ \E j, k \in Indices(recorded) :
          /\ recorded[j].trade.activeId = 1
          /\ recorded[j].trade.expirationTime > currentTime
          /\ recorded[j].closePrice = 11
          /\ recorded[k].trade.activeId = 3
          /\ recorded[k].trade.expirationTime > currentTime
          /\ recorded[k].closePrice = 21

\* what the claim compares of one placed or settled trade
TradeFacts(entry) ==
    [ kind |-> entry.kind, id |-> entry.trade.id,
      direction |-> entry.trade.direction, invest |-> entry.trade.invest,
      openQuote |-> entry.trade.openQuote, openTime |-> entry.trade.openTime,
      expirationTime |-> entry.trade.expirationTime,
      outcome |-> entry.result, pnl |-> entry.pnl ]

TradeSequence(log) == [k \in Indices(log) |-> TradeFacts(log[k])]

CandleIds == { sensor.id : sensor \in {x \in HarnessSensors : x.type = "candle"} }

\* the buffer keeps the last maxBufferSize of what was there and what arrived
KeepsLatest(before, items, after) ==
    after = SliceLast(before \o items, maxBufferSize)

\* every buffer holds at most maxBufferSize items
WithinCapacity ==
    /\ \A id \in DOMAIN sensorData : Len(sensorData[id]) <= maxBufferSize
    /\ \A id \in DOMAIN sensorBuffers : Len(sensorBuffers[id]) <= maxBufferSize

\* the step replaced the last candle of the buffer (same period start)
IsUpdate(buffer, op) ==
    /\ op.op = "candle"
    /\ Len(buffer) > 0
    /\ Last(buffer).from = op.items[1].from

\* the items the operation pushed into the live buffer: those prefilled, or
\* one per handler call
PushedItems(op) ==
    IF op.op = "prefill" THEN op.items
    ELSE [k \in 1 .. Len(op.pushes) |-> op.pushes[k].item]

\* a step that pushes or prefills evicts the oldest items first
EvictsOldestFirst ==
    lastOp'.op \in {"candle", "mood", "prefill"} =>
       LET id == lastOp'.id
       IN  /\ (id \in DOMAIN sensorData /\ ~IsUpdate(sensorData[id], lastOp')) =>
                 KeepsLatest(sensorData[id], PushedItems(lastOp'), sensorData'[id])
           /\ (id \in DOMAIN sensorBuffers /\ lastOp'.op # "mood"
                 /\ ~IsUpdate(sensorBuffers[id], lastOp')) =>
                 KeepsLatest(sensorBuffers[id], lastOp'.items, sensorBuffers'[id])

\* C8: for every sensor buffer, in the live SensorManager and in
\* BacktestEnvironment, after any sequence of subscribe, push (pushData,
\* pushCandle, feedCandle) and prefill operations the buffer length never
\* exceeds the capacity; on overflow the oldest item is dropped first, so that
\* feeding more candles than the capacity leaves exactly the last ones, in
\* arrival order.
C8_BoundedBuffers == []WithinCapacity /\ [][EvictsOldestFirst]_vars

\* more candles than the capacity, with distinct period starts, were fed into
\* the empty candle buffers, which now hold the last maxBufferSize of them
C8_Witness ==
    /\ lastOp.op = "prefill"
    /\ lastOp.id \in CandleIds
    /\ lastOp.len = 0
    /\ Len(lastOp.items) > maxBufferSize
    /\ lastOp.id \in DOMAIN sensorData
    /\ sensorData[lastOp.id] = SliceLast(lastOp.items, maxBufferSize)
    /\ lastOp.id \in DOMAIN sensorBuffers
    /\ sensorBuffers[lastOp.id] = SliceLast(lastOp.items, maxBufferSize)

\* what the arrival of candle makes of a buffer, as the claim has it
AfterArrival(buffer, candle, after) ==
    IF Len(buffer) > 0 /\ Last(buffer).from = candle.from
    THEN /\ Len(after) = Len(buffer)
         /\ Last(after) = candle
         /\ \A i \in 1 .. Len(buffer) - 1 : after[i] = buffer[i]
    ELSE IF Len(buffer) < maxBufferSize
         THEN after = Append(buffer, candle)
         ELSE after = Append(Tail(buffer), candle)

\* C9: when a candle arrives for a subscribed candle sensor: if its period
\* start equals that of the buffer's last element, the last element is replaced
\* and the buffer length is unchanged; otherwise the candle is appended, the
\* oldest element being evicted only if the capacity is exceeded. No element
\* other than the last is ever replaced.
C9_CandleArrival ==
    [][ lastOp'.op = "candle" =>
          LET id == lastOp'.id
              candle == lastOp'.items[1]
          IN  /\ id \in DOMAIN sensorData =>
                    AfterArrival(sensorData[id], candle, sensorData'[id])
              /\ id \in DOMAIN sensorBuffers =>
                    AfterArrival(sensorBuffers[id], candle, sensorBuffers'[id])
      ]_vars

\* an update of the running period has just replaced the last candle of both
\* buffers, which were not full and are as long as before
C9_Witness ==
    /\ lastOp.op = "candle"
    /\ lastOp.len >= 1 /\ lastOp.len < maxBufferSize
    /\ lastOp.id \in DOMAIN sensorData /\ lastOp.id \in DOMAIN sensorBuffers
    /\ Len(sensorData[lastOp.id]) = lastOp.len
    /\ Last(sensorData[lastOp.id]) = lastOp.items[1]
    /\ lastOp.items[1].close = 11
    /\ sensorBuffers[lastOp.id] = sensorData[lastOp.id]

\* the candles of the buffer are in the order of their period starts
Ordered(buffer) ==
    \A i, j \in Indices(buffer) : i < j => buffer[i].from <= buffer[j].from

\* C10: in every reachable state the candles inside one candle sensor buffer
\* are ordered by period start, for any interleaving of subscribe, candles
\* arriving in chronological order and prefill calls with historical candles.
C10_BuffersOrdered ==
    /\ \A id \in CandleIds \cap DOMAIN sensorData : Ordered(sensorData[id])
    /\ \A id \in CandleIds \cap DOMAIN sensorBuffers : Ordered(sensorBuffers[id])

\* the registered sensor ids are the ids that have a buffer
RegisteredHaveBuffers ==
    /\ DOMAIN activeSensors = DOMAIN sensorData
    /\ DOMAIN subscribedSensors = DOMAIN sensorBuffers

\* unsubscribe leaves neither the registration nor the buffer
UnsubscribeRemovesBoth ==
    lastOp'.op = "unsubscribe" =>
       /\ lastOp'.id \notin DOMAIN activeSensors' \cup DOMAIN sensorData'
       /\ lastOp'.id \notin DOMAIN subscribedSensors' \cup DOMAIN sensorBuffers'

\* prefill of an id that is not registered changes nothing
PrefillUnknownChangesNothing ==
    lastOp'.op = "prefill" =>
       /\ lastOp'.id \notin DOMAIN activeSensors =>
             UNCHANGED << activeSensors, sensorData, updateCallbacks >>
       /\ lastOp'.id \notin DOMAIN subscribedSensors =>
             UNCHANGED << subscribedSensors, sensorBuffers >>

\* C11: in every reachable state of SensorManager and of BacktestEnvironment
\* the set of registered sensor ids equals the set of sensor ids that have a
\* buffer; unsubscribe(id) removes the registration and the buffer together,
\* and a later prefill on that id changes nothing.
C11_RegistrationAndBuffer ==
    /\ []RegisteredHaveBuffers
    /\ [][UnsubscribeRemovesBoth /\ PrefillUnknownChangesNothing]_vars

\* history was just prefilled into a candle sensor that is not registered,
\* while the mood sensor is registered: nothing has a buffer but the mood sensor
C11_Witness ==
    /\ lastOp.op = "prefill"
    /\ lastOp.id \in CandleIds
    /\ lastOp.items # <<>>
    /\ DOMAIN activeSensors = {moodId(1)}
    /\ DOMAIN sensorData = {moodId(1)}
    /\ DOMAIN subscribedSensors = {moodId(1)}
    /\ DOMAIN sensorBuffers = {moodId(1)}

\* the handler calls of the operation that wrote a buffer
Mutations(op) == {k \in 1 .. Len(op.pushes) : op.pushes[k].mutated}

\* subscribing an active id changes nothing, live or in backtest
SubscribeActiveIsNoOp ==
    lastOp'.op = "subscribe" =>
       /\ lastOp'.id \in DOMAIN activeSensors =>
             UNCHANGED << activeSensors, sensorData, handlers, updateCallbacks >>
       /\ lastOp'.id \in DOMAIN subscribedSensors =>
             UNCHANGED << subscribedSensors, sensorBuffers >>

\* one arriving candle writes the buffer of a subscribed candle sensor once
OneMutationPerCandle ==
    (lastOp'.op = "candle" /\ lastOp'.id \in DOMAIN sensorData) =>
       Cardinality(Mutations(lastOp')) = 1

\* C12: subscribing a sensor whose id is already active is a no-op: the
\* existing buffer contents are kept, no additional push handler is wired (each
\* later push of one item causes exactly one buffer mutation), and in backtest
\* the buffer is not pre-filled a second time.
C12_SubscribeIdempotent ==
    [][SubscribeActiveIsNoOp /\ OneMutationPerCandle]_vars

\* the candle sensor, already active with a filled buffer, was subscribed again
\* after the clock passed the first dataset candles
C12_Witness ==
    /\ lastOp.op = "subscribe"
    /\ lastOp.id \in CandleIds
    /\ lastOp.len > 0
    /\ currentTime > 1
    /\ lastOp.id \in DOMAIN sensorData /\ Len(sensorData[lastOp.id]) = lastOp.len
    /\ lastOp.id \in DOMAIN sensorBuffers /\ Len(sensorBuffers[lastOp.id]) > 0

\* the callbacks the operation invoked
Invoked(op) == UNION { op.pushes[k].calls : k \in 1 .. Len(op.pushes) }

\* C13: prefill(id, items) never invokes an update callback; when no buffer
\* exists for id it is a silent no-op that creates no buffer and no
\* registration.
C13_PrefillSilent ==
    [][ lastOp'.op = "prefill" =>
          /\ Invoked(lastOp') = {}
          /\ UNCHANGED << activeSensors, subscribedSensors, updateCallbacks,
                          handlers, pc >>
          /\ lastOp'.id \notin DOMAIN sensorData => UNCHANGED sensorData
          /\ lastOp'.id \notin DOMAIN sensorBuffers => UNCHANGED sensorBuffers
      ]_vars

\* history was just prefilled into a subscribed sensor while an update
\* callback is registered: the buffers have grown and nothing was invoked
C13_Witness ==
    /\ lastOp.op = "prefill"
    /\ lastOp.items # <<>>
    /\ updateCallbacks # {}
    /\ lastOp.pushes = <<>>
    /\ lastOp.id \in DOMAIN sensorData
    /\ Len(sensorData[lastOp.id]) > lastOp.len
    /\ lastOp.id \in DOMAIN sensorBuffers
    /\ Len(sensorBuffers[lastOp.id]) > 0

\* C14: every callback registered with onUpdate and not yet removed with
\* offUpdate is invoked exactly once per buffer mutation caused by a push
\* (append or same-period replace), with the mutated sensor's id and the item
\* just written; it is not invoked for a push to a sensor that has no buffer,
\* and never after offUpdate removed it.
C14_CallbackPerMutation ==
    [][ lastOp'.op \in {"candle", "mood"} =>
          \A k \in 1 .. Len(lastOp'.pushes) :
             LET push == lastOp'.pushes[k]
             IN  /\ push.mutated = (push.id \in DOMAIN sensorData)
                 /\ push.calls = IF push.mutated THEN updateCallbacks ELSE {}
                 /\ push.mutated =>
                       /\ push.id \in DOMAIN sensorData'
                       /\ Last(sensorData'[push.id]) = push.item
      ]_vars

\* an update of the running period has just replaced the last candle of the
\* live buffer and the registered callback was invoked once, with that candle
C14_Witness ==
    /\ lastOp.op = "candle"
    /\ lastOp.len >= 1 /\ lastOp.len < maxBufferSize
    /\ lastOp.id \in DOMAIN sensorData
    /\ Len(sensorData[lastOp.id]) = lastOp.len
    /\ updateCallbacks # {}
    /\ Len(lastOp.pushes) = 1
    /\ lastOp.pushes[1].calls = updateCallbacks
    /\ lastOp.pushes[1].item = Last(sensorData[lastOp.id])

\* the position the state was last fed
FedLast == lastOp.items[1]

\* C15: EnvironmentState.maxDrawdown never decreases across any sequence of
\* onPositionChanged calls (open or closed, any pnl sign), and after every call
\* maxDrawdown >= drawdown.
C15_MaxDrawdownMonotone ==
    /\ [](state.maxDrawdown >= state.drawdown)
    /\ [][state'.maxDrawdown >= state.maxDrawdown]_vars

\* a winning close has just brought the drawdown back below the maximum reached
\* before
C15_Witness ==
    /\ lastOp.op = "position"
    /\ FedLast.status = "closed" /\ FedLast.pnl > 0
    /\ state.drawdown > 0
    /\ state.maxDrawdown > state.drawdown

RECURSIVE SumPnl(_)
\* the sum of the pnl of the positions, an absent pnl counting for nothing
SumPnl(positions) ==
    IF positions = <<>> THEN 0
    ELSE SumPnl(SubSeq(positions, 1, Len(positions) - 1))
            + (IF Last(positions).pnl = Undefined THEN 0 ELSE Last(positions).pnl)

\* the values totalPnl has taken after each close so far
TotalsAfterClose ==
    { SumPnl(SubSeq(fedPositions, 1, k)) : k \in 1 .. Len(fedPositions) }

\* C16: after every closed transition in EnvironmentState: peak equals the
\* maximum of 0 and all values totalPnl has taken after a close so far,
\* drawdown = peak - totalPnl, and drawdown >= 0; totalPnl equals the sum of pnl
\* over all closed positions fed in.
C16_PeakAndDrawdown ==
    /\ state.totalPnl = SumPnl(fedPositions)
    /\ state.peak = MaxOf({0} \cup TotalsAfterClose)
    /\ state.drawdown = state.peak - state.totalPnl
    /\ state.drawdown >= 0

\* three positions were closed; the total went up to a peak and then below zero
C16_Witness ==
    /\ Len(fedPositions) = 3
    /\ lastOp.op = "position" /\ FedLast.status = "closed"
    /\ state.peak > 0
    /\ state.totalPnl < 0
    /\ state.drawdown = state.peak - state.totalPnl

\* the classification of a closed position
IsWin(pos) == pos.close_reason = "win"

\* the number of most recent closed positions classified as the last one
RunLength(positions) ==
    LET n == Len(positions)
        same(k) == IsWin(positions[k]) = IsWin(positions[n])
    IN  Cardinality({k \in 1 .. n : \A j \in k .. n : same(j)})

\* C17: after any sequence of closed transitions, EnvironmentState.streak is a
\* signed run length: it is positive iff the most recent closed position was a
\* win, and its absolute value equals the number of most-recent consecutive
\* closed positions with the same win / non-win classification; an outcome
\* opposite to the running sign resets it to +1 or -1.
C17_StreakIsRunLength ==
    IF fedPositions = <<>> THEN state.streak = 0
    ELSE /\ (state.streak > 0) = IsWin(Last(fedPositions))
         /\ state.streak # 0
         /\ (IF state.streak > 0 THEN state.streak ELSE 0 - state.streak)
               = RunLength(fedPositions)

\* two non-wins were followed by a win: the streak is back at +1
C17_Witness ==
    /\ Len(fedPositions) = 3
    /\ ~IsWin(fedPositions[1]) /\ ~IsWin(fedPositions[2]) /\ IsWin(fedPositions[3])
    /\ state.streak = 1

\* the ids of the positions
IdsOf(positions) == { positions[k].id : k \in 1 .. Len(positions) }

\* no two open positions have the same id; the ring is within its capacity
OpenSetWellFormed ==
    /\ \A j, k \in 1 .. Len(state.openPositions) :
          state.openPositions[j].id = state.openPositions[k].id => j = k
    /\ Len(state.recentClosed) <= maxRecentClosed

\* what one position update makes of the state
UpdateEffect ==
    lastOp'.op = "position" =>
       LET pos  == lastOp'.items[1]
           open == state.openPositions
       IN  IF pos.status = "open"
           THEN /\ IF pos.id \in IdsOf(open)
                   THEN /\ Len(state'.openPositions) = Len(open)
                        /\ \A k \in 1 .. Len(open) :
                              state'.openPositions[k] =
                                 IF open[k].id = pos.id THEN pos ELSE open[k]
                   ELSE state'.openPositions = Append(open, pos)
                /\ state'.closedCount = state.closedCount
                /\ state'.recentClosed = state.recentClosed
           ELSE /\ state'.openPositions =
                      FilterSeq(open, {p \in Range(open) : p.id # pos.id})
                /\ state'.closedCount = state.closedCount + 1
                /\ state'.recentClosed =
                      SliceLast(Append(state.recentClosed, pos), maxRecentClosed)

\* C18: EnvironmentState.openPositions never contains two positions with the
\* same id: an open-status update for an id already present replaces that
\* entry in place (length unchanged), and a closed-status update removes that
\* id from the open set, increments closedCount by one and appends the position
\* to the recent-closed ring, whose length never exceeds its capacity (oldest
\* dropped first).
C18_OpenSetAndRing == []OpenSetWellFormed /\ [][UpdateEffect]_vars

\* after more closes than the ring holds, an open-status update has replaced
\* the first of two open positions in place
C18_Witness ==
    /\ lastOp.op = "position"
    /\ FedLast.status = "open"
    /\ lastOp.len = 2
    /\ Len(state.openPositions) = 2
    /\ state.openPositions[1] = FedLast
    /\ state.closedCount > maxRecentClosed
    /\ Len(state.recentClosed) = maxRecentClosed

\* what the holder of the snapshot reads in it now
SnapshotView ==
    [snap.value EXCEPT
        !.openPositions = ReadArray(snap.arrays.openPositions, state.openPositions),
        !.recentClosedPositions =
            ReadArray(snap.arrays.recentClosedPositions, state.recentClosed)]

\* C19: a snapshot returned by EnvironmentState.snapshot() is independent of the
\* live state: later onPositionChanged calls (open upsert, in-place replace,
\* close) and balance updates change none of the snapshot's scalar fields, its
\* openPositions list or its recentClosedPositions list.
C19_SnapshotIndependent ==
    snap.taken =>
       /\ SnapshotView = snap.value
       /\ snap.value.openPositions = snap.arrays.openPositions.items
       /\ snap.value.recentClosedPositions = snap.arrays.recentClosedPositions.items

\* since the snapshot was taken, an open position it lists was replaced in
\* place, another position was closed and the balance has changed
C19_Witness ==
    /\ snap.taken
    /\ Len(snap.value.openPositions) = 2
    /\ Len(state.openPositions) = 2
    /\ state.openPositions[1].id = snap.value.openPositions[1].id
    /\ state.openPositions[1] # snap.value.openPositions[1]
    /\ state.closedCount > snap.value.closedCount
    /\ state.recentClosed # snap.value.recentClosedPositions
    /\ state.balance # snap.value.balance

\* the sensor sequences the holder of the observation reads in it now
SensorsRead == ReadMap(observation.sensors, sensorBuffers)
LiveSensorsRead == ReadMap(observation.liveSensors, sensorData)

\* C20: an Observation returned by getObservation (live and backtest) is a
\* point-in-time immutable view: the sensor sequences it contains do not change
\* when the sensor buffers are later mutated by arriving candles/pushes, prefill
\* or eviction.
C20_ObservationImmutable ==
    observation.taken =>
       /\ SensorsRead = observation.sensorsThen
       /\ LiveSensorsRead = observation.liveSensorsThen

\* the action:executed / action:failed events on the bus, in emission order
IsActionEvent(ev) == ev.type \in {"action:executed", "action:failed"}
ActionEvents == SelectSeq(bus.buffer, IsActionEvent)

C21_LiveWitness ==
    /\ batch.env = "live"
    /\ Len(batch.actions) = MaxBatchLen
    /\ ~batch.results[1].ok
    /\ batch.results[2].ok
    /\ batch.results[2].type = "subscribe"
    /\ DOMAIN activeSensors # {}

\* the trades among the first n actions of the latest batch that were placed
PlacedIn(b, n) ==
    { i \in 1 .. n : b.actions[i].type = "trade" /\ b.results[i].ok }

RECURSIVE StakeSum(_, _)
StakeSum(b, indices) ==
    IF indices = {} THEN 0
    ELSE LET i == CHOOSE x \in indices : TRUE
         IN  b.actions[i].payload.price + StakeSum(b, indices \ {i})

\* C22: in backtest, a trade action whose stake exceeds the wallet balance is
\* rejected with an affordability error and leaves the wallet balance, the
\* pending trades, the open positions and the next position id as they were; a
\* trade whose stake is covered debits the wallet by exactly the stake at
\* placement and creates exactly one PendingTrade and one open Position
\* carrying the same fresh id.
C22_TradePlacement ==
    [][ batch'.env = "backtest" =>
          LET b      == batch'
              n      == Len(b.actions)
              placed == PlacedIn(b, n)
          IN  /\ \A i \in 1 .. n :
                    b.actions[i].type = "trade" =>
                       /\ b.results[i].ok <=>
                             b.actions[i].payload.price <=
                                wallet.balance - StakeSum(b, PlacedIn(b, i - 1))
                       /\ ~b.results[i].ok => b.results[i].error = "Cannot afford trade"
              /\ wallet'.balance = wallet.balance - StakeSum(b, placed)
              /\ nextPositionId' = nextPositionId + Cardinality(placed)
              /\ Len(pendingTrades') = Len(pendingTrades) + Cardinality(placed)
              /\ Len(state'.openPositions) =
                    Len(state.openPositions) + Cardinality(placed)
              /\ \A k \in 1 .. Cardinality(placed) :
                    LET trade == pendingTrades'[Len(pendingTrades) + k]
                        pos   == state'.openPositions[Len(state.openPositions) + k]
                    IN  /\ trade.id = nextPositionId + k - 1
                        /\ pos.id = trade.id
                        /\ pos.status = "open"
                        /\ trade.invest \in { b.actions[i].payload.price : i \in placed }
              /\ placed = {} =>
                    /\ pendingTrades' = pendingTrades
                    /\ state'.openPositions = state.openPositions
                    /\ wallet' = wallet
                    /\ nextPositionId' = nextPositionId
      ]_vars

\* a covered trade was placed and the trade after it, which the wallet no
\* longer covers, was rejected
C22_Witness ==
    /\ batch.env = "backtest"
    /\ Len(batch.results) = 2
    /\ batch.results[1].type = "trade" /\ batch.results[1].ok
    /\ batch.results[2].type = "trade" /\ ~batch.results[2].ok
    /\ wallet.balance = InitialBalance - 20
    /\ Len(pendingTrades) = 1
    /\ pendingTrades[1].id = state.openPositions[1].id

\* an action no environment knows: a type outside the four action types, or a
\* query whose method neither executeQuery has a case for
ActionTypes == {"trade", "subscribe", "unsubscribe", "query"}
IsUnknown(action) ==
    \/ action.type \notin ActionTypes
    \/ /\ action.type = "query"
       /\ action.payload.method \notin LiveQueryMethods \cup BacktestQueryMethods

\* C23: a query action with an unknown method name, and an action with an
\* unknown type, is reported as an error in that action's result slot together
\* with an action:failed event, in the backtest environment exactly as in the
\* live ActionExecutor, and the remaining actions of the batch still run.
C23_UnknownActionFails ==
    batch.env # "none" =>
       /\ Len(batch.results) = Len(batch.actions)
       /\ \A i \in 1 .. Len(batch.results) :
             IsUnknown(batch.actions[i]) =>
                /\ ~batch.results[i].ok
                /\ batch.results[i].error # ""
                /\ ActionEvents[i].type = "action:failed"

\* the live ActionExecutor does report them
C23_LiveUnknownActionFails == batch.env = "live" => C23_UnknownActionFails

\* the placements in the trade log
Placements == { k \in 1 .. Len(tradeLog) : tradeLog[k].kind = "place" }
\* the placements whose debit left the wallet at or below zero
BustingPlacements == { k \in Placements : tradeLog[k].after <= 0 }

\* C24: in a backtest run, whenever a stake debit leaves the wallet balance
\* <= 0 (including a debit made while the agent initializes), the bust is
\* detected inside that debit and halts the run: after the busting debit no
\* later trade is placed and no new PendingTrade is created.
C24_BustHaltsRun ==
    \A j \in BustingPlacements :
       /\ busted
       /\ \A k \in Placements : k <= j

\* the second half alone: no placement follows a busting one
C24_NoTradeAfterBust ==
    \A j \in BustingPlacements : \A k \in Placements : k <= j

\* once the runner has registered its bust callback, a busting debit sets
\* busted within the same step and nothing is placed after that
C24_HaltsOnceWired ==
    [][ /\ (wallet.bustCallback /\ Len(tradeLog') > Len(tradeLog)
              /\ Last(tradeLog').kind = "place" /\ Last(tradeLog').after <= 0)
           => busted'
        /\ busted => Placements' = Placements
      ]_vars

\* the candles of the trade's instrument that open at or after its expiration
AtOrAfterExpiration(trade) ==
    { k \in CandlesOf(trade.activeId) : allCandles[k].from >= trade.expirationTime }

\* the price the claim settles an expired trade at
ExpectedClose(trade) ==
    IF AtOrAfterExpiration(trade) # {}
    THEN allCandles[MinOf(AtOrAfterExpiration(trade))].close
    ELSE IF CandlesOf(trade.activeId) # {}
         THEN allCandles[MaxOf(CandlesOf(trade.activeId))].close
         ELSE trade.openQuote

C25_TieWitness ==
    /\ pc # "done"
    /\ \E k \in Indices(tradeLog) :
          /\ tradeLog[k].kind = "settle"
          /\ CandlesOf(tradeLog[k].trade.activeId) = {}
          /\ tradeLog[k].result = "tie"

\* a step of the replay loop that processes the candle allCandles[idx]
ProcessesCandle == pc = "loop" /\ pc' \in {"loop", "observe"}

\* the agent is being handed, or is working on, the observation of allCandles[idx]
Observing == pc \in {"observe", "cycle"}

\* every clock reads the periodStart of the candle being processed
ClocksAgree ==
    Observing =>
       /\ getObservation(Env).timestamp = allCandles[idx].from
       /\ getObservation(Env).state.serverTime = allCandles[idx].from
       /\ BusTime(Run) = allCandles[idx].from
       /\ now(Run) = allCandles[idx].from

\* C26: during replay there is a single simulated clock that is strictly
\* increasing from one processed candle to the next, also when several datasets
\* are merged into one chronological replay, and at every observation
\* obs.timestamp, state.serverTime, the event-bus timestamp and ctx.now() all
\* equal the periodStart of the candle being processed.
C26_ClockStrictlyIncreasing ==
    /\ []ClocksAgree
    /\ [][ (ProcessesCandle /\ idx > 1) =>
              /\ simulatedTime' > simulatedTime
              /\ currentTime' > currentTime ]_vars

\* C26 as the code has it: the clock never goes back, it advances exactly when
\* the next candle opens later than the one before (candles of different
\* instruments that share a periodStart are processed at the same clock value),
\* and at every observation all four clocks read the candle's periodStart.
C26_ClockNeverGoesBack ==
    /\ []ClocksAgree
    /\ [][ ProcessesCandle =>
              /\ simulatedTime' = allCandles[idx].from
              /\ currentTime' = allCandles[idx].from
              /\ simulatedTime' >= simulatedTime
              /\ currentTime' >= currentTime
              /\ idx > 1 =>
                    (simulatedTime' > simulatedTime
                        <=> allCandles[idx].from > allCandles[idx - 1].from) ]_vars

\* the agent observes the second of two candles that share a periodStart
C26_Witness ==
    /\ pc = "cycle"
    /\ idx > 1
    /\ allCandles[idx].from = allCandles[idx - 1].from
    /\ allCandles[idx].active_id # allCandles[idx - 1].active_id
    /\ simulatedTime = allCandles[idx].from

\* what the reconnect handler sent in this step
Sent == SubSeq(link'.wire, Len(link.wire) + 1, Len(link'.wire))
\* the ws:reconnected events on the bus
ReconnectEvents(b) ==
    Cardinality({ k \in 1 .. Len(b.buffer) : b.buffer[k].type = "ws:reconnected" })

\* the handler has run to its end after a successful re-authentication
ResubscribedAll ==
    LET sent == Sent
        n    == Len(sent)
    IN  /\ n > 0
        /\ sent[n] = Message("emit", "ws:reconnected", <<>>)
        /\ ReconnectEvents(bus') = ReconnectEvents(bus) + 1
        /\ \A id \in DOMAIN activeSensors :
              IF activeSensors[id].type = "balance"
              THEN \E k \in 1 .. n - 1 :
                      sent[k] = Message("subscribe", "balance-changed", <<>>)
              ELSE Cardinality({ k \in 1 .. n - 1 : sent[k].sensor = id }) = 1
        /\ \A k \in 1 .. n - 1 :
              sent[k].sensor # <<>> => sent[k].sensor \in DOMAIN activeSensors
        /\ \E k \in 1 .. n - 1 : sent[k] = Message("subscribe", "balance-changed", <<>>)
        /\ \E k \in 1 .. n - 1 :
              sent[k] = Message("subscribe", "portfolio.position-changed", <<>>)

ClosedSinceWired ==
    IF liveAgent.wired
    THEN SubSeq(fedPositions, liveAgent.wiredAt + 1, Len(fedPositions))
    ELSE <<>>

\* C28: in live runAgent the agent's onTradeResult hook is invoked exactly once
\* per closed position: once for every position id that closes, however many
\* position-changed push events are delivered for that id, and never for an
\* event whose status is open.
C28_OncePerClosedPosition ==
    /\ \A id \in PositionIds :
          CountId(liveAgent.onTradeResult, id)
             = IF CountId(ClosedSinceWired, id) > 0 THEN 1 ELSE 0
    /\ \A k \in 1 .. Len(liveAgent.onTradeResult) :
          liveAgent.onTradeResult[k].status = "closed"

\* what the handler does: the hook is invoked once per closed push event, in
\* the order of the pushes, and never for an open one
C28_OncePerClosedEvent == liveAgent.onTradeResult = ClosedSinceWired

\* two closed events were pushed for position 1 after the wiring
C28_Witness ==
    /\ liveAgent.wired
    /\ CountId(ClosedSinceWired, 1) = 2
    /\ Len(state.openPositions) > 0

\* the events handed to EventBus.emit so far, in emission order
EmittedEvents == [k \in 1 .. Len(emitted) |-> emitted[k].event]

PutOnBus ==
    LET before == bus.sink \o bus.buffer
        after  == bus'.sink \o bus'.buffer
    IN  { after[k].type : k \in Len(before) + 1 .. Len(after) }
           \cup { bus'.heard[k].event.type : k \in Len(bus.heard) + 1 .. Len(bus'.heard) }

\* C30: through AgentContext an agent can only put events whose type starts
\* with agent: on the bus: ctx.events.emit with any other type notifies no
\* listener and persists or buffers nothing; and no AgentContext operation
\* changes the wallet balance, peak or max drawdown.
C30_AgentContextIsConfined ==
    [][ lastOp'.op \in CtxOps =>
           /\ \A type \in PutOnBus : startsWith(type, "agent:")
           /\ (lastOp'.op = "ctx.events.emit" /\ ~startsWith(lastOp'.id, "agent:"))
                 => (bus'.heard = bus.heard /\ bus'.sink = bus.sink
                     /\ bus'.buffer = bus.buffer)
           /\ wallet' = wallet
      ]_vars

\* the agent has tried to emit trade:closed with a listener registered for it
\* and the wallet away from its initial state
C30_Witness ==
    /\ lastOp.op = "ctx.events.emit"
    /\ lastOp.id = "trade:closed"
    /\ "trade:closed" \in bus.listeners
    /\ "*" \in bus.listeners
    /\ wallet.maxDrawdown > 0
    /\ Len(emitted) > 0

\* the dataset rows of a sensor's instrument and candle size that start before
\* the simulated time, by their place in the chronologically sorted dataset
RowsBefore(sensor) ==
    { k \in 1 .. Len(allCandles) :
         /\ allCandles[k].active_id = sensor.active_id
         /\ allCandles[k].size = sensor.size
         /\ allCandles[k].from < currentTime }
\* the m-th smallest member of a set of numbers
NthOf(K, m) == CHOOSE k \in K : Cardinality({ j \in K : j < k }) = m - 1
\* the sensors the step subscribes
NewlySubscribed == DOMAIN subscribedSensors' \ DOMAIN subscribedSensors

\* C31: in backtest, subscribing a new candle sensor at simulated time T
\* pre-fills its buffer with exactly the dataset candles of that instrument and
\* candle size whose periodStart is strictly less than T, in chronological
\* order, limited to the most recent maxBufferSize of them; no candle with
\* periodStart >= T is put in the buffer by the subscription.
C31_SubscribePrefillsPast ==
    [][ \A id \in NewlySubscribed :
           LET sensor == subscribedSensors'[id]
               buffer == sensorBuffers'[id]
               K      == RowsBefore(sensor)
               n      == IF Cardinality(K) < maxBufferSize
                         THEN Cardinality(K) ELSE maxBufferSize
           IN  sensor.type = "candle" =>
                  /\ Len(buffer) = n
                  /\ \A j \in 1 .. n :
                        buffer[j] = allCandles[NthOf(K, Cardinality(K) - n + j)]
                  /\ \A j \in 1 .. Len(buffer) : buffer[j].from < currentTime
      ]_vars

\* instrument 1 has been subscribed in the cycle of instrument 2's candle of
\* period 2: its buffer holds its candle of period 1 and not the one of period 2,
\* which a subscription made any earlier would have been fed
C31_Witness ==
    /\ pc = "cycle"
    /\ idx = 3
    /\ currentTime = 2
    /\ candleId(1, 1) \in DOMAIN subscribedSensors
    /\ sensorBuffers[candleId(1, 1)] = <<Dataset[1]>>

\* the live runner's tracking wallet after the closed positions of this replay,
\* starting from the same initial balance
TrackingWallet == HandleEach(NewRunner(InitialBalance), tradeResults).wallet
Settled(reasons) ==
    /\ pendingTrades = <<>>
    /\ tradeResults # <<>>
    /\ \A k \in 1 .. Len(tradeResults) : tradeResults[k].close_reason \in reasons

\* C32: live and backtest wallet accounting agree: for any sequence of trades
\* that are placed and then settled with outcomes in {win, loss, tie}, the
\* balance of the live runner's tracking wallet after all settlements equals
\* the balance of the backtest wallet after the same placements and
\* settlements, starting from the same initial balance.
C32_WalletsAgree ==
    Settled({"win", "loss", "tie"}) => TrackingWallet.balance = wallet.balance

\* the two balances agree when every trade settled as a win or a loss
C32_WalletsAgreeWithoutTie ==
    Settled({"win", "loss"}) => TrackingWallet.balance = wallet.balance

\* a win and a loss have been settled and nothing is pending
C32_WinLossSettled ==
    /\ Settled({"win", "loss"})
    /\ \E j, k \in 1 .. Len(tradeResults) :
          tradeResults[j].close_reason = "win" /\ tradeResults[k].close_reason = "loss"

\* the canonical candle sensor of the side-by-side harness
TheCandleSensor == CandleSensor(1, 1)
\* its buffer in a map of buffers; <<"none">> when the map has no entry for it
BufferIn(buffers) ==
    IF TheCandleSensor.id \in DOMAIN buffers THEN buffers[TheCandleSensor.id]
    ELSE <<"none">>
\* the step subscribes the sensor in a backtest whose dataset has rows of it
\* before the simulated time
SubscribesWithHistory ==
    /\ lastOp'.op = "subscribe"
    /\ lastOp'.id = TheCandleSensor.id
    /\ TheCandleSensor.id \notin DOMAIN subscribedSensors
    /\ Historical(Env, TheCandleSensor.active_id, TheCandleSensor.size) # <<>>
\* SensorManager ran its update callbacks for the sensor in this step
LiveNotifies ==
    \E k \in 1 .. Len(lastOp'.pushes) :
        lastOp'.pushes[k].id = TheCandleSensor.id /\ lastOp'.pushes[k].mutated
\* BacktestEnvironment ran its update callbacks for the sensor in this step
BacktestNotifies ==
    /\ lastOp'.op = "candle"
    /\ lastOp'.id = TheCandleSensor.id
    /\ feedCandle(setCurrentTime(Env, lastOp'.items[1].from), lastOp'.items[1]).fired

\* C33: for the same sequence of subscribe, candle-arrival, prefill and
\* unsubscribe operations on a candle sensor with canonical id (and no dataset
\* history before the subscription time), the backtest buffer maintained by
\* BacktestEnvironment and the live buffer maintained by SensorManager hold
\* identical contents after every step and notify update callbacks on exactly
\* the same steps.
C33_BuffersInStep ==
    [][ (BufferIn(sensorBuffers) = BufferIn(sensorData) /\ ~SubscribesWithHistory)
           => /\ BufferIn(sensorBuffers') = BufferIn(sensorData')
              /\ LiveNotifies <=> BacktestNotifies
      ]_vars

\* a candle has arrived at both buffers, full and alike, the callbacks ran and
\* the buffers are still alike
C33_Witness ==
    /\ lastOp.op = "candle"
    /\ lastOp.len = maxBufferSize
    /\ \E k \in 1 .. Len(lastOp.pushes) : lastOp.pushes[k].mutated
    /\ updateCallbacks # {}
    /\ BufferIn(sensorBuffers) = BufferIn(sensorData)
    /\ Len(BufferIn(sensorData)) = maxBufferSize
    /\ BufferIn(sensorData)[maxBufferSize] = lastOp.items[1]

RECURSIVE SumInvest(_)
\* the stakes of a list of trades, added up
SumInvest(trades) ==
    IF trades = <<>> THEN 0 ELSE Head(trades).invest + SumInvest(Tail(trades))

\* C34: money conservation in backtest: in every state between operations the
\* wallet balance is the initial balance plus the pnl of all settled trades
\* minus the stakes of all still-pending trades; EnvironmentState.balance
\* equals the wallet balance; and EnvironmentState.totalPnl is the sum of the
\* pnl of all settled trades.
C34_MoneyConserved ==
    /\ wallet.balance
          = InitialBalance + SumPnl(tradeResults) - SumInvest(pendingTrades)
    /\ state.balance = wallet.balance
    /\ state.totalPnl = SumPnl(tradeResults)

\* a win is settled and a second trade is pending
C34_Witness ==
    /\ Len(pendingTrades) = 1
    /\ \E k \in 1 .. Len(tradeResults) : tradeResults[k].close_reason = "win"

\* a loss is settled and a second trade is pending
C34_LossWitness ==
    /\ Len(pendingTrades) = 1
    /\ \E k \in 1 .. Len(tradeResults) : tradeResults[k].close_reason = "loss"

\* a tie is settled and a trade is pending
C34_TieWitness ==
    /\ Len(pendingTrades) = 1
    /\ \E k \in 1 .. Len(tradeResults) : tradeResults[k].close_reason = "tie"

\* the trades placed so far, in placement order
PlacedTrades == SelectSeq(tradeLog, LAMBDA entry : entry.kind = "place")

\* C35: at every agent observation in backtest, the ids of
\* EnvironmentState.openPositions are the ids of the simulator's pending
\* trades; position ids are unique and strictly increasing in placement order;
\* and closedCount plus the number of open positions is the number of
\* successfully placed trades.
C35_PositionsMatchTrades ==
    Observing =>
       /\ IdsOf(state.openPositions) = IdsOf(pendingTrades)
       /\ Cardinality(IdsOf(state.openPositions)) = Len(state.openPositions)
       /\ Cardinality(IdsOf(pendingTrades)) = Len(pendingTrades)
       /\ \A j, k \in 1 .. Len(PlacedTrades) :
             j < k => PlacedTrades[j].trade.id < PlacedTrades[k].trade.id
       /\ state.closedCount + Len(state.openPositions) = Len(PlacedTrades)

\* the same in every state of a replay, observation or not
C35_PositionsMatchTradesAlways ==
    /\ IdsOf(state.openPositions) = IdsOf(pendingTrades)
    /\ state.closedCount + Len(state.openPositions) = Len(PlacedTrades)

\* the agent observes with one trade settled and another, placed later, open
C35_Witness ==
    /\ pc = "cycle"
    /\ state.closedCount = 1
    /\ Len(state.openPositions) = 1
    /\ Len(PlacedTrades) = 2
    /\ slot = 0

\* the step places a trade
PlacesTrade ==
    /\ Len(tradeLog') = Len(tradeLog) + 1
    /\ Last(tradeLog').kind = "place"

\* C36: in backtest the wallet balance is never negative in any reachable state
\* and no trade action ever increases the wallet balance at placement, for
\* every stake value an agent can put in a trade action payload.
C36_WalletSafeForAnyStake ==
    /\ [](wallet.balance >= 0)
    /\ [][PlacesTrade => wallet'.balance <= wallet.balance]_vars

\* the same for the trades whose stake is positive
C36_WalletSafeForPositiveStakes ==
    /\ []((\A k \in 1 .. Len(tradeLog) : tradeLog[k].trade.invest > 0)
             => wallet.balance >= 0)
    /\ [][(PlacesTrade /\ Last(tradeLog').trade.invest > 0)
             => wallet'.balance < wallet.balance]_vars

\* a trade with a positive stake has been placed and has settled
C36_PositiveStakeSettled ==
    /\ Len(tradeLog) >= 2
    /\ \A k \in 1 .. Len(tradeLog) : tradeLog[k].trade.invest > 0

\* the cycle has completed every action it was given, within the first n
\* entries of the log
CompletedWithin(cycle, n) ==
    \A k \in 1 .. n :
        (cycles.log[k].cycle = cycle /\ cycles.log[k].kind = "sent")
           => \E m \in k + 1 .. n :
                 /\ cycles.log[m].cycle = cycle
                 /\ cycles.log[m].kind = "settled"
                 /\ cycles.log[m].index = cycles.log[k].index

\* C37: in live mode observation cycles are serialized: after a sensor update
\* has started a cycle, agent.onObservation is not invoked for a later sensor
\* update, and no action of a later cycle is executed, until every action of
\* the earlier cycle has completed; so the actions of two cycles never
\* interleave and a later cycle's observation reflects the earlier cycle's
\* trades.
C37_CyclesSerialized ==
    \A k \in 1 .. Len(cycles.log) :
        cycles.log[k].kind \in {"onObservation", "sent"}
           => \A earlier \in 1 .. cycles.log[k].cycle - 1 :
                 CompletedWithin(earlier, k - 1)

\* within one cycle the actions are executed in the order given, each sent
\* only when the one before it has settled
C37_OrderedWithinCycle ==
    \A k \in 1 .. Len(cycles.log) :
        (cycles.log[k].kind = "sent" /\ cycles.log[k].index > 1)
           => \E m \in 1 .. k - 1 :
                 /\ cycles.log[m].cycle = cycles.log[k].cycle
                 /\ cycles.log[m].kind = "settled"
                 /\ cycles.log[m].index = cycles.log[k].index - 1

\* two cycles of two trades each have run to their end
C37_TwoCyclesDone ==
    /\ cycles.inFlight = <<>>
    /\ cycles.started = 2
    /\ cycles.requests = 4

\* the candles the agent's latest fetch returned
Fetched(vias) == IF lastOp.op \in vias THEN lastOp.items ELSE <<>>

\* C38: no look-ahead in backtest: no candle whose periodStart is later than
\* the current simulated time is ever returned to the agent through the
\* backtest candles API (getCandles, getFirstCandles) or through the getCandles
\* query action.
C38_NoLookAhead ==
    \A k \in 1 .. Len(Fetched({"getCandles", "getFirstCandles", "query"})) :
        Fetched({"getCandles", "getFirstCandles", "query"})[k].from <= currentTime

\* getFirstCandles returns candles that start before the simulated time only
C38_FirstCandlesArePast ==
    \A k \in 1 .. Len(Fetched({"getFirstCandles"})) :
        Fetched({"getFirstCandles"})[k].from < currentTime

\* getFirstCandles has returned candles
C38_FirstCandlesFetched ==
    /\ lastOp.op = "getFirstCandles"
    /\ Len(lastOp.items) = 2
    /\ lastOp.len = currentTime

\* the run:stopped events the runner has emitted
RunStopped == SelectSeq(liveRunner.events, LAMBDA ev : ev.type = "run:stopped")

\* a call of stop that finds the run not running changes nothing
IdleStopDoesNothing ==
    (Len(liveRunner'.calls) > Len(liveRunner.calls) /\ ~liveRunner.running)
       => liveRunner' = [liveRunner EXCEPT
                            !.calls = liveRunner'.calls,
                            !.durationTimeout = liveRunner'.durationTimeout]

\* C39: for a live AgentRunner, however many stop triggers fire and in whatever
\* order (wallet bust, max-duration timeout, SIGINT, repeated calls), the
\* run:stopped event is emitted at most once and the stop sequence (final
\* snapshot, run status update) is performed at most once; stop before the run
\* is marked running does nothing.
C39_StopsOnce ==
    /\ [](/\ Len(RunStopped) <= 1
          /\ liveRunner.finalSnapshots <= 1
          /\ liveRunner.statusUpdates <= 1
          /\ liveRunner.finalSnapshots + liveRunner.statusUpdates > 0
                => Len(RunStopped) = 1)
    /\ [][IdleStopDoesNothing]_vars

\* a run stopped by the timeout after an early call, with two more triggers
\* during the stop sequence, has finished its stop sequence
C39_Witness ==
    /\ liveRunner.exited
    /\ liveRunner.calls = << "manual", "timeout", "user", "bust" >>
    /\ Len(RunStopped) = 1
    /\ liveRunner.finalSnapshots = 1
    /\ liveRunner.statusUpdates = 1

\* the latest call was an onObservation that returned a trade action
ReturnedTrade == atrx.last.op = "onObservation" /\ atrx.last.trade

\* a trade is returned only past every gate
ATRXGated ==
    ReturnedTrade' =>
        /\ atrx'.last.obs.timestamp >= atrx.agent.pauseUntil
        /\ atrx'.last.obs.timestamp >= atrx.agent.cooldownUntil
        /\ atrx'.last.obs.openPositions < ATRXConfig.maxOpenTrades
        /\ ~atrx.agent.stopTrading
        /\ ~atrx'.agent.stopTrading

\* an observation with totalPnl <= -maxTotalLoss sets stopTrading
ATRXStopsAtTotalLoss ==
    (atrx.last.op = "onObservation"
        /\ atrx.last.obs.totalPnl <= 0 - ATRXConfig.maxTotalLoss)
       => atrx.agent.stopTrading

\* the loss streak is counted, reset by a win, and at maxConsecutiveLosses the
\* pause runs lossPauseDuration from the time of the latest result
ATRXPausedOnStreak ==
    /\ atrx.agent.consecutiveLosses = atrx.streak
    /\ atrx.streak >= ATRXConfig.maxConsecutiveLosses
          => atrx.agent.pauseUntil = atrx.resultAt + ATRXConfig.lossPauseDuration

\* no entry-candle periodStart has two trades
ATRXOncePerEntryCandle ==
    \A j, k \in 1 .. Len(atrx.tradedFroms) :
        atrx.tradedFroms[j] = atrx.tradedFroms[k] => j = k

C40_StoppedWitness ==
    /\ atrx.agent.stopTrading
    /\ atrx.last.op = "onObservation"
    /\ atrx.last.obs.totalPnl = 0
    /\ atrx.last.obs.timestamp > atrx.agent.cooldownUntil
    /\ Len(atrx.tradedFroms) = 1

====
